---- MODULE Spec2Model ----
(***************************************************************************)
(* A model of the ur_rtde client library's receive interface               *)
(* (src/src/rtde_receive_interface.cpp) and I/O interface                  *)
(* (src/unnamed/part_000).                                                 *)
(*                                                                         *)
(* The classes RTDE and RobotState are used by both interfaces but their   *)
(* implementation is not part of the sources at hand; their behaviour is   *)
(* taken from the specification (sections 4.2, 4.3 and 5) and the          *)
(* definitions doing so say it.                                            *)
(*                                                                         *)
(* SpecRecv: one RTDEReceiveInterface object, the caller's thread going    *)
(* through constructor, reconnect(), disconnect() and getters statement by *)
(* statement, the receive threads it spawns going through                  *)
(* receiveCallback() statement by statement, and the network link, which   *)
(* may break at any time.                                                  *)
(* SpecIO: one RTDEIOInterface object and its caller.                      *)
(* SpecSetup: construction and reconnect() of both interfaces.             *)
(* SpecDigital: writes to the standard digital outputs and the controller  *)
(* applying them.                                                          *)
(* SpecScript: one ScriptClient (src/src/script_client.cpp), its caller    *)
(* and the script text it pre-processes and uploads.                       *)
(* SpecAsync: the client of the async path example (src/unnamed/part_001)  *)
(* and the control script's progress register.                             *)
(* SpecCommand: the command channel's handshake with the control script.   *)
(***************************************************************************)
EXTENDS Integers, Sequences, FiniteSets, TLC

\* Bounds of the model.
MaxAsyncCommands == 2   \* movePath(path, true) calls of the example's client
MaxScriptLen == 5    \* characters of the script text
MaxThreads == 2      \* receive threads ever started (constructor + reconnects)
FrameMod == 2        \* the controller's frames carry the numbers 1..FrameMod, cyclically
MaxAttempts == 3     \* send attempts of one I/O setter call after which the link stays up
MaxOutputId == 8     \* output ids 0..MaxOutputId are passed to the setters
MaxReads == 1        \* output frames the I/O interface receives

\* Program constants.
CB3_MAJOR_VERSION == 3
ControllerMajors == {3, 5}    \* a CB3 controller and an e-Series controller

Threads == 1..MaxThreads

VARIABLES
  \* ---- receive interface ----
  conn,          \* rtde_'s connection state: DISCONNECTED, CONNECTED, STARTED
  link,          \* "up" when the current socket has a live TCP connection
  stop_thread,   \* RTDEReceiveInterface::stop_thread
  th_,           \* RTDEReceiveInterface::th_: the thread the handle owns (0: none)
  thr,           \* position of every receive thread in receiveCallback()
  failed,        \* failed[t]: thread t went through its catch block
  robot_state_,  \* TRUE once robot_state_ points to a RobotState
  snap,          \* the RobotState's fields (two of them), each the number of the frame it came from
  lock,          \* thread holding the snapshot exclusively (0: none)
  wframe,        \* number of the frame the lock holder is decoding
  frameNo,       \* number of the last frame the controller sent
  major,         \* the controller's major version
  frequency,     \* frequency of the last sendOutputSetup (0: none yet)
  callerPc,      \* position of the caller's thread
  calls,         \* what the running constructor/reconnect()/disconnect() has done so far
  lastOp,        \* the operation the caller completed last: none, ctor, reconnect, disconnect
  ret,           \* what the last reconnect() returned: TRUE, FALSE or "threw"
  rcClean,       \* the last reconnect() was entered with no receive thread alive, after a failed one
  got,           \* the value the last getter returned
  contended,     \* the last getter was called while a frame was being decoded
  fresh,         \* a frame has been decoded into the snapshot since the last connect
  closedBy,      \* who called rtde_->disconnect() last: none (not since the last connect), caller, loop
  \* ---- I/O interface ----
  ioConn,        \* rtde_'s connection state
  ioLink,        \* "up" when the current socket has a live TCP connection
  ioRecipes,     \* the input recipes declared, in order (recipe id = position)
  ioFrequency,   \* frequency of the last sendOutputSetup
  ioMajor,       \* the controller's major version
  ioOp,          \* the public operation the caller is in: none, setter, reconnect
  ioPc,          \* position of the caller inside that operation
  ioDepth,       \* number of sendCommand activations on the stack
  ioCmd,         \* the RobotCommand being sent
  ioArgs,        \* the arguments of the setter call
  ioAttempts,    \* rtde_->send calls made by the current setter call
  ioFailures,    \* of which threw
  ioSent,        \* frames the current setter call has put on the wire
  ioFrame,       \* the last frame put on the wire
  ioResult,      \* what the last setter returned: TRUE, FALSE, "threw" or "none"
  \* ---- the controller's digital outputs ----
  inflight,                     \* the digital-output frame sent and not yet applied by the controller
  actual_digital_output_bits,   \* the controller's output "actual_digital_output_bits"
  lastApplied,   \* the write whose frame the controller applied last
  \* ---- script client ----
  conn_state_,             \* ScriptClient::conn_state_
  major_control_version_,  \* ScriptClient::major_control_version_
  minor_control_version_,  \* ScriptClient::minor_control_version_
  script_text,   \* UR_SCRIPT, the built-in control script that sendScript() loads
  ur_script,     \* sendScript()'s local ur_script
  find_n,        \* sendScript()'s local n, -1 standing for std::string::npos
  scPc,          \* position of the script client's caller: idle, marker, send
  scLast,        \* the call of the script client that ended last
  scRet,         \* how it ended: "true", "false", "threw", "returned" (void), "none"
  written,       \* the text that call wrote to the socket (empty: nothing)
  \* ---- asynchronous path (the example's client, the control script) ----
  async_progress,  \* the controller's output_int_register_(base+1)
  async_snapshot,  \* its copy in the receive interface's snapshot
  asyncState,      \* the control script and the async command: idle, accepted, moving
  pathPc,          \* position of the example's main(): call, wait_start, wait_end, read, finished
  Waypoint,        \* main()'s local Waypoint
  asyncCommands,   \* movePath(path, true) calls made
  excursions,      \* times the progress left -1 since the last of them
  polled,          \* main() has read the progress value the controller holds now
  observed,        \* the progress values main() has read since the last call, repeats dropped
  \* ---- command channel ----
  ccPc,            \* position of the caller in sendCommand(): idle, poll, clear
  ccCode,          \* command code of the command being sent
  ccFrames,        \* command codes of the input frames emitted for it, in order
  ccDoneSeen,      \* DONE was observed for it
  ccRet,           \* how the last sendCommand() ended: true, timeout, controller, none
  cmd_register,    \* the controller's input_int_register_(base+0)
  done_register,   \* the controller's output_int_register_(base+0)
  done_snapshot,   \* its copy in the snapshot, read by getControlScriptState()
  \* ---- names ----
  script_file_name_,  \* ScriptClient::script_file_name_
  lower_range_name,   \* the register name last built by a control interface with offset 0
  upper_range_name,   \* the register name last built by one that uses the upper range
  \* ---- sockets ----
  socket_,            \* ScriptClient::socket_: null, open (not connected), connected
  ioReads             \* output frames the I/O interface has received

recvVars == <<conn, link, stop_thread, th_, thr, failed, robot_state_, snap, lock, wframe,
              frameNo, major, frequency, callerPc, calls, lastOp, ret, rcClean, got, contended,
              fresh, closedBy>>
ioVars == <<ioConn, ioLink, ioRecipes, ioFrequency, ioMajor, ioOp, ioPc, ioDepth, ioCmd,
            ioArgs, ioAttempts, ioFailures, ioSent, ioFrame, ioResult>>
digVars == <<inflight, actual_digital_output_bits, lastApplied>>
\* Everything outside the receive interface and the I/O interface.
scVars == <<conn_state_, major_control_version_, minor_control_version_, script_text, ur_script,
            find_n, scPc, scLast, scRet, written>>
asyncVars == <<async_progress, async_snapshot, asyncState, pathPc, Waypoint, asyncCommands,
               excursions, polled, observed>>
ccVars == <<ccPc, ccCode, ccFrames, ccDoneSeen, ccRet, cmd_register, done_register,
            done_snapshot>>
nameVars == <<script_file_name_, lower_range_name, upper_range_name>>
wireVars == <<socket_, ioReads>>
restVars == <<digVars, scVars, asyncVars, ccVars, nameVars, wireVars>>
vars == <<recvVars, fresh, closedBy, ioVars, restVars>>

(***************************************************************************)
(* RTDE session (from the specification, section 4.2)                      *)
(***************************************************************************)

\* RTDE::isConnected(): every state but DISCONNECTED has a connection.
isConnected(c) == c # "DISCONNECTED"

\* A call on the session's socket succeeds when the session is connected and the link is alive;
\* otherwise it raises a transport error.
RtdeOk(c, l) == c # "DISCONNECTED" /\ l = "up"

\* Output frequency chosen from the controller's major version.
FrequencyForFromCB3(m) == IF m >= CB3_MAJOR_VERSION THEN 500 ELSE 125
FrequencyFor(m) == IF m > CB3_MAJOR_VERSION THEN 500 ELSE 125

(***************************************************************************)
(* RobotState snapshot (from the specification, sections 3 and 5: a        *)
(* read-write lock, decode under an exclusive hold, accessors under a      *)
(* shared hold)                                                            *)
(***************************************************************************)

\* The number the controller gives its next frame.
NextFrame(n) == (n % FrameMod) + 1

\* A decode may take the exclusive hold when nobody holds it.
WriterMayEnter == lock = 0

\* An accessor may take a shared hold when no writer holds the snapshot.
ReaderMayReadUnlocked == TRUE
ReaderMayRead == lock = 0

(***************************************************************************)
(* RTDEReceiveInterface::receiveCallback, one action per statement         *)
(***************************************************************************)

Alive(t) == thr[t] \notin {"none", "done"}

\* while (!stop_thread)
LoopTestDisconnectsOnStop(t) ==
  /\ thr[t] = "check"
  /\ thr' = [thr EXCEPT ![t] = IF stop_thread THEN "done" ELSE "recv"]
  /\ IF stop_thread /\ isConnected(conn)
       THEN conn' = "DISCONNECTED" /\ link' = "down" /\ closedBy' = "loop"
       ELSE UNCHANGED <<conn, link, closedBy>>
  /\ UNCHANGED <<stop_thread, th_, failed, robot_state_, snap, lock, wframe,
                 frameNo, major, frequency, callerPc, calls, lastOp, ret, rcClean, got, contended,
                 fresh, ioVars, restVars>>
LoopTest(t) ==
  /\ thr[t] = "check"
  /\ thr' = [thr EXCEPT ![t] = IF stop_thread THEN "done" ELSE "recv"]
  /\ UNCHANGED <<conn, link, stop_thread, th_, failed, robot_state_, snap, lock, wframe,
                 frameNo, major, frequency, callerPc, calls, lastOp, ret, rcClean, got, contended, fresh, closedBy, ioVars, restVars>>

\* rtde_->receiveData(robot_state_), a frame has arrived: the decode takes the snapshot and
\* writes the first field.
receiveDataBegin(t) ==
  /\ thr[t] = "recv"
  /\ conn = "STARTED" /\ link = "up"
  /\ WriterMayEnter
  /\ lock' = t
  /\ frameNo' = NextFrame(frameNo)
  /\ wframe' = NextFrame(frameNo)
  /\ snap' = [snap EXCEPT ![1] = NextFrame(frameNo)]
  /\ thr' = [thr EXCEPT ![t] = "decode"]
  /\ UNCHANGED <<conn, link, stop_thread, th_, failed, robot_state_, major, frequency,
                 callerPc, calls, lastOp, ret, rcClean, got, contended, fresh, closedBy, ioVars, restVars>>

\* the decode writes the last field, lets go of the snapshot, and receiveData returns.
receiveDataEnd(t) ==
  /\ thr[t] = "decode"
  /\ snap' = [snap EXCEPT ![2] = wframe]
  /\ lock' = 0
  /\ fresh' = TRUE
  /\ thr' = [thr EXCEPT ![t] = "check"]
  /\ UNCHANGED <<conn, link, stop_thread, th_, failed, robot_state_, wframe, frameNo, major,
                 frequency, callerPc, calls, lastOp, ret, rcClean, got, contended, closedBy, ioVars, restVars>>

\* rtde_->receiveData(robot_state_) raises: the socket is closed or the link is dead.
receiveDataThrows(t) ==
  /\ thr[t] = "recv"
  /\ ~RtdeOk(conn, link)
  /\ thr' = [thr EXCEPT ![t] = "catch"]
  /\ failed' = [failed EXCEPT ![t] = TRUE]
  /\ UNCHANGED <<conn, link, stop_thread, th_, robot_state_, snap, lock, wframe, frameNo,
                 major, frequency, callerPc, calls, lastOp, ret, rcClean, got, contended, fresh, closedBy, ioVars, restVars>>

\* catch: if (rtde_->isConnected()) rtde_->disconnect();
CatchDisconnect(t) ==
  /\ thr[t] = "catch"
  /\ IF isConnected(conn)
       THEN conn' = "DISCONNECTED" /\ link' = "down" /\ closedBy' = "loop"
       ELSE UNCHANGED <<conn, link, closedBy>>
  /\ thr' = [thr EXCEPT ![t] = "setstop"]
  /\ UNCHANGED <<stop_thread, th_, failed, robot_state_, snap, lock, wframe, frameNo, major,
                 frequency, callerPc, calls, lastOp, ret, rcClean, got, contended, fresh, ioVars, restVars>>

\* catch: stop_thread = true;
CatchStop(t) ==
  /\ thr[t] = "setstop"
  /\ stop_thread' = TRUE
  /\ thr' = [thr EXCEPT ![t] = "check"]
  /\ UNCHANGED <<conn, link, th_, failed, robot_state_, snap, lock, wframe, frameNo, major,
                 frequency, callerPc, calls, lastOp, ret, rcClean, got, contended, fresh, closedBy, ioVars, restVars>>

\* The socket is killed mid-session.
KillSocket ==
  /\ th_ > 0
  /\ conn # "DISCONNECTED" /\ link = "up"
  /\ link' = "down"
  /\ UNCHANGED <<conn, stop_thread, th_, thr, failed, robot_state_, snap, lock, wframe,
                 frameNo, major, frequency, callerPc, calls, lastOp, ret, rcClean, got, contended, fresh, closedBy, ioVars, restVars>>

(***************************************************************************)
(* The caller's thread: constructor, reconnect(), disconnect(), getters    *)
(***************************************************************************)

\* What the caller's steps leave alone unless they say otherwise.
CallerKeeps == UNCHANGED <<thr, failed, snap, lock, wframe, frameNo, major, got, contended, fresh, closedBy, ioVars, restVars>>

\* ---- RTDEReceiveInterface::RTDEReceiveInterface ----

\* rtde_ = make_shared<RTDE>(...); rtde_->connect();
CtorConnect ==
  /\ callerPc = "ctor_connect"
  /\ conn' = "CONNECTED" /\ link' = "up"
  /\ calls' = Append(calls, "connect")
  /\ callerPc' = "ctor_negotiate"
  /\ fresh' = FALSE /\ closedBy' = "none"
  /\ UNCHANGED <<thr, failed, snap, lock, wframe, frameNo, major, got, contended, ioVars, restVars>>
  /\ UNCHANGED <<stop_thread, th_, robot_state_, frequency, lastOp, ret, rcClean>>

\* rtde_->negotiateProtocolVersion(); getControllerVersion();
CtorNegotiate ==
  /\ callerPc = "ctor_negotiate"
  /\ calls' = Append(calls, "negotiate")
  /\ callerPc' = "ctor_setup"
  /\ CallerKeeps
  /\ UNCHANGED <<conn, link, stop_thread, th_, robot_state_, frequency, lastOp, ret, rcClean>>

\* frequency = 125 or 500; setupRecipes(frequency);
CtorSetup ==
  /\ callerPc = "ctor_setup"
  /\ frequency' = FrequencyFor(major)
  /\ calls' = Append(calls, "setup")
  /\ callerPc' = "ctor_start"
  /\ CallerKeeps
  /\ UNCHANGED <<conn, link, stop_thread, th_, robot_state_, lastOp, ret, rcClean>>

\* rtde_->sendStart();
CtorStart ==
  /\ callerPc = "ctor_start"
  /\ conn' = "STARTED"
  /\ calls' = Append(calls, "start")
  /\ callerPc' = "ctor_state"
  /\ CallerKeeps
  /\ UNCHANGED <<link, stop_thread, th_, robot_state_, frequency, lastOp, ret, rcClean>>

\* robot_state_ = make_shared<RobotState>();
CtorState ==
  /\ callerPc = "ctor_state"
  /\ robot_state_' = TRUE
  /\ calls' = Append(calls, "state")
  /\ callerPc' = "ctor_spawn"
  /\ CallerKeeps
  /\ UNCHANGED <<conn, link, stop_thread, th_, frequency, lastOp, ret, rcClean>>

\* th_ = make_shared<boost::thread>(receiveCallback); sleep; the constructor returns.
CtorSpawn ==
  /\ callerPc = "ctor_spawn"
  /\ th_' = th_ + 1
  /\ thr' = [thr EXCEPT ![th_ + 1] = "check"]
  /\ calls' = Append(calls, "spawn")
  /\ callerPc' = "idle"
  /\ lastOp' = "ctor"
  /\ UNCHANGED <<conn, link, stop_thread, failed, robot_state_, snap, lock, wframe, frameNo,
                 major, frequency, ret, rcClean, got, contended, fresh, closedBy, ioVars, restVars>>

\* ---- RTDEReceiveInterface::reconnect ----

\* An RTDE call of reconnect() raises: the exception leaves reconnect().
ReconnectThrows ==
  /\ callerPc' = "idle"
  /\ lastOp' = "reconnect"
  /\ ret' = "threw"

\* reconnect() is called; if (rtde_ != nullptr)
ReconnectCall ==
  /\ callerPc = "idle"
  /\ th_ < MaxThreads
  /\ callerPc' = "rc_connect"
  /\ calls' = <<>>
  /\ rcClean' = ((\A t \in Threads : ~Alive(t)) /\ failed[th_])
  /\ CallerKeeps
  /\ UNCHANGED <<conn, link, stop_thread, th_, robot_state_, frequency, lastOp, ret>>

\* rtde_->connect(): a new socket; the controller accepts, or the connect fails and raises.
ReconnectConnect ==
  /\ callerPc = "rc_connect"
  /\ \/ /\ conn' = "CONNECTED" /\ link' = "up"
        /\ fresh' = FALSE /\ closedBy' = "none"
        /\ calls' = Append(calls, "connect")
        /\ callerPc' = "rc_negotiate"
        /\ UNCHANGED <<lastOp, ret>>
     \/ /\ link' = "down"
        /\ ReconnectThrows
        /\ UNCHANGED <<conn, calls, fresh, closedBy>>
  /\ UNCHANGED <<thr, failed, snap, lock, wframe, frameNo, major, got, contended, ioVars, restVars>>
  /\ UNCHANGED <<stop_thread, th_, robot_state_, frequency, rcClean>>

\* rtde_->negotiateProtocolVersion(); getControllerVersion();
ReconnectNegotiate ==
  /\ callerPc = "rc_negotiate"
  /\ IF RtdeOk(conn, link)
       THEN /\ calls' = Append(calls, "negotiate")
            /\ callerPc' = "rc_setup"
            /\ UNCHANGED <<lastOp, ret>>
       ELSE ReconnectThrows /\ UNCHANGED calls
  /\ CallerKeeps
  /\ UNCHANGED <<conn, link, stop_thread, th_, robot_state_, frequency, rcClean>>

\* frequency = 125 or 500; setupRecipes(frequency);
ReconnectSetup ==
  /\ callerPc = "rc_setup"
  /\ IF RtdeOk(conn, link)
       THEN /\ frequency' = FrequencyFor(major)
            /\ calls' = Append(calls, "setup")
            /\ callerPc' = "rc_start"
            /\ UNCHANGED <<lastOp, ret>>
       ELSE ReconnectThrows /\ UNCHANGED <<calls, frequency>>
  /\ CallerKeeps
  /\ UNCHANGED <<conn, link, stop_thread, th_, robot_state_, rcClean>>

\* rtde_->sendStart();
ReconnectStart ==
  /\ callerPc = "rc_start"
  /\ IF RtdeOk(conn, link)
       THEN /\ conn' = "STARTED"
            /\ calls' = Append(calls, "start")
            /\ callerPc' = "rc_reset"
            /\ UNCHANGED <<lastOp, ret>>
       ELSE ReconnectThrows /\ UNCHANGED <<calls, conn>>
  /\ CallerKeeps
  /\ UNCHANGED <<link, stop_thread, th_, robot_state_, frequency, rcClean>>

\* stop_thread = false;
ReconnectResetStopForgets ==
  /\ callerPc = "rc_reset"
  /\ calls' = Append(calls, "reset")
  /\ callerPc' = "rc_spawn"
  /\ CallerKeeps
  /\ UNCHANGED <<conn, link, stop_thread, th_, robot_state_, frequency, lastOp, ret, rcClean>>
ReconnectResetStop ==
  /\ callerPc = "rc_reset"
  /\ stop_thread' = FALSE
  /\ calls' = Append(calls, "reset")
  /\ callerPc' = "rc_spawn"
  /\ CallerKeeps
  /\ UNCHANGED <<conn, link, th_, robot_state_, frequency, lastOp, ret, rcClean>>

\* th_ = make_shared<boost::thread>(receiveCallback): the handle is replaced; the thread it
\* owned before, never joined, is detached by the handle's destructor and runs on.
ReconnectSpawn ==
  /\ callerPc = "rc_spawn"
  /\ th_' = th_ + 1
  /\ thr' = [thr EXCEPT ![th_ + 1] = "check"]
  /\ calls' = Append(calls, "spawn")
  /\ callerPc' = "rc_return"
  /\ UNCHANGED <<conn, link, stop_thread, failed, robot_state_, snap, lock, wframe, frameNo,
                 major, frequency, lastOp, ret, rcClean, got, contended, fresh, closedBy, ioVars, restVars>>

\* sleep 10 ms; return isConnected();
ReconnectReturn ==
  /\ callerPc = "rc_return"
  /\ ret' = IF isConnected(conn) THEN "true" ELSE "false"
  /\ callerPc' = "idle"
  /\ lastOp' = "reconnect"
  /\ CallerKeeps
  /\ UNCHANGED <<conn, link, stop_thread, th_, robot_state_, frequency, calls, rcClean>>

\* ---- RTDEReceiveInterface::disconnect ----

\* disconnect() is called; stop_thread = true;
DisconnectSetStop ==
  /\ callerPc = "idle"
  /\ stop_thread' = TRUE
  /\ calls' = <<"stop">>
  /\ callerPc' = "dc_join"
  /\ CallerKeeps
  /\ UNCHANGED <<conn, link, th_, robot_state_, frequency, lastOp, ret, rcClean>>

\* th_->interrupt(); th_->join(): returns once the thread th_ owns has left receiveCallback
\* (the loop has no interruption point).
DisconnectJoin ==
  /\ callerPc = "dc_join"
  /\ thr[th_] = "done"
  /\ calls' = Append(calls, "join")
  /\ callerPc' = "dc_close"
  /\ CallerKeeps
  /\ UNCHANGED <<conn, link, stop_thread, th_, robot_state_, frequency, lastOp, ret, rcClean>>

\* disconnect() closing the RTDE connection whatever its state.
DisconnectCloseAlways ==
  /\ callerPc = "dc_close"
  /\ conn' = "DISCONNECTED" /\ link' = "down"
  /\ closedBy' = "caller"
  /\ calls' = Append(calls, "close")
  /\ callerPc' = "idle"
  /\ lastOp' = "disconnect"
  /\ UNCHANGED <<thr, failed, snap, lock, wframe, frameNo, major, got, contended, ioVars, restVars>>
  /\ UNCHANGED <<stop_thread, th_, robot_state_, frequency, ret, rcClean, fresh>>

\* if (rtde_ != nullptr) if (rtde_->isConnected()) rtde_->disconnect(); sleep 500 ms; return.
DisconnectClose ==
  /\ callerPc = "dc_close"
  /\ IF isConnected(conn)
       THEN /\ conn' = "DISCONNECTED" /\ link' = "down"
            /\ closedBy' = "caller"
            /\ calls' = Append(calls, "close")
       ELSE UNCHANGED <<conn, link, calls, closedBy>>
  /\ callerPc' = "idle"
  /\ lastOp' = "disconnect"
  /\ UNCHANGED <<thr, failed, snap, lock, wframe, frameNo, major, got, contended, ioVars, restVars>>
  /\ UNCHANGED <<stop_thread, th_, robot_state_, frequency, ret, rcClean, fresh>>

\* ---- getters: return robot_state_->get...() ----

\* A getter is called: the accessor asks for its shared hold.
GetterCall ==
  /\ callerPc = "idle"
  /\ robot_state_
  /\ contended' = (lock # 0)
  /\ callerPc' = "get_read"
  /\ UNCHANGED <<conn, link, stop_thread, th_, thr, failed, robot_state_, snap, lock, wframe,
                 frameNo, major, frequency, calls, lastOp, ret, rcClean, got, fresh, closedBy, ioVars, restVars>>

\* The accessor copies the value out under its shared hold and returns it.
GetterRead ==
  /\ callerPc = "get_read"
  /\ ReaderMayRead
  /\ got' = snap
  /\ callerPc' = "idle"
  /\ UNCHANGED <<conn, link, stop_thread, th_, thr, failed, robot_state_, snap, lock, wframe,
                 frameNo, major, frequency, calls, lastOp, ret, rcClean, contended, fresh, closedBy, ioVars, restVars>>

(***************************************************************************)
(* The receive interface's specification                                   *)
(***************************************************************************)

InitRecv ==
  /\ conn = "DISCONNECTED" /\ link = "down"
  /\ stop_thread = FALSE
  /\ th_ = 0
  /\ thr = [t \in Threads |-> "none"]
  /\ failed = [t \in Threads |-> FALSE]
  /\ robot_state_ = FALSE
  /\ snap = <<0, 0>>
  /\ lock = 0 /\ wframe = 0 /\ frameNo = 0
  /\ major \in ControllerMajors
  /\ frequency = 0
  /\ callerPc = "ctor_connect"
  /\ calls = <<>>
  /\ lastOp = "none"
  /\ ret = "none"
  /\ rcClean = FALSE
  /\ got = <<0, 0>>
  /\ contended = FALSE
  /\ fresh = FALSE
  /\ closedBy = "none"

ThreadStep(t) ==
  \/ LoopTest(t)
  \/ receiveDataBegin(t)
  \/ receiveDataEnd(t)
  \/ receiveDataThrows(t)
  \/ CatchDisconnect(t)
  \/ CatchStop(t)

\* Constructor, reconnect(), disconnect(), the receive threads and the link.
NextLife ==
  \/ CtorConnect \/ CtorNegotiate \/ CtorSetup \/ CtorStart \/ CtorState \/ CtorSpawn
  \/ ReconnectCall \/ ReconnectConnect \/ ReconnectNegotiate \/ ReconnectSetup
  \/ ReconnectStart \/ ReconnectResetStop \/ ReconnectSpawn \/ ReconnectReturn
  \/ DisconnectSetStop \/ DisconnectJoin \/ DisconnectClose
  \/ KillSocket
  \/ \E t \in Threads : LoopTest(t)
  \/ \E t \in Threads : receiveDataBegin(t)
  \/ \E t \in Threads : receiveDataEnd(t)
  \/ \E t \in Threads : receiveDataThrows(t)
  \/ \E t \in Threads : CatchDisconnect(t)
  \/ \E t \in Threads : CatchStop(t)

\* The same, and the caller's getters.
NextRecv ==
  \/ NextLife
  \/ GetterCall \/ GetterRead

(***************************************************************************)
(* RTDEIOInterface: recipes                                                *)
(***************************************************************************)

\* The input recipes the constructor declares, in the order of its sendInputSetup calls.
CtorInputRecipes ==
  << <<"input_int_register_20">>,
     <<"input_int_register_20", "standard_digital_output_mask", "standard_digital_output">>,
     <<"input_int_register_20", "tool_digital_output_mask", "tool_digital_output">>,
     <<"input_int_register_20", "speed_slider_mask", "speed_slider_fraction">>,
     <<"input_int_register_2", "standard_analog_output_mask", "standard_analog_output_type",
       "standard_analog_output_0", "standard_analog_output_1">> >>

\* The input recipes reconnect() declares, in the order of its sendInputSetup calls.
ReconnectInputRecipesShared ==
  << <<"input_int_register_20">>,
     <<"input_int_register_20", "standard_digital_output_mask", "standard_digital_output">>,
     <<"input_int_register_20", "standard_digital_output_mask", "tool_digital_output">>,
     <<"input_int_register_20", "speed_slider_mask", "speed_slider_fraction">>,
     <<"input_int_register_20", "standard_analog_output_mask", "standard_analog_output_type",
       "standard_analog_output_0", "standard_analog_output_1">> >>
ReconnectInputRecipes ==
  << <<"input_int_register_20">>,
     <<"input_int_register_20", "standard_digital_output_mask", "standard_digital_output">>,
     <<"input_int_register_20", "tool_digital_output_mask", "tool_digital_output">>,
     <<"input_int_register_20", "speed_slider_mask", "speed_slider_fraction">>,
     <<"input_int_register_20", "standard_analog_output_mask", "standard_analog_output_type",
       "standard_analog_output_0", "standard_analog_output_1">> >>

\* The output recipe the constructor declares, and the one reconnect() declares.
CtorOutputRecipe == <<"robot_status_bits", "output_int_register_0">>
ReconnectOutputRecipe == <<"robot_status_bits", "output_int_register_0">>

Range(q) == {q[i] : i \in 1..Len(q)}

(***************************************************************************)
(* RTDE::send (from the specification, section 4.2): the frame carries the *)
(* fields of the command's recipe, each drawn from the command's slot      *)
(***************************************************************************)

\* A payload slot of the command: what the setter assigned, zero if it assigned nothing.
Member(cmd, m) == IF m \in DOMAIN cmd THEN cmd[m] ELSE 0

Slot(cmd, f) ==
  CASE f \in {"input_int_register_20", "input_int_register_2"} -> cmd.type_
    [] f = "standard_digital_output_mask" -> Member(cmd, "std_digital_out_mask_")
    [] f = "standard_digital_output" -> Member(cmd, "std_digital_out_")
    [] f = "tool_digital_output_mask" -> Member(cmd, "std_tool_out_mask_")
    [] f = "tool_digital_output" -> Member(cmd, "std_tool_out_")
    [] f = "speed_slider_mask" -> Member(cmd, "speed_slider_mask_")
    [] f = "speed_slider_fraction" -> Member(cmd, "speed_slider_fraction_")
    [] f = "standard_analog_output_mask" -> Member(cmd, "std_analog_output_mask_")
    [] f = "standard_analog_output_type" -> Member(cmd, "std_analog_output_type_")
    [] f = "standard_analog_output_0" -> Member(cmd, "std_analog_output_0_")
    [] f = "standard_analog_output_1" -> Member(cmd, "std_analog_output_1_")
    [] OTHER -> 0

Encode(cmd, recipes) ==
  [recipe_id |-> cmd.recipe_id_,
   fields |-> [f \in Range(recipes[cmd.recipe_id_]) |-> Slot(cmd, f)]]

NoFrame == [recipe_id |-> 0, fields |-> <<>>]
NoCmd == [type_ |-> "NO_CMD", recipe_id_ |-> 0]

(***************************************************************************)
(* RTDEIOInterface::setStandardDigitalOut                                  *)
(***************************************************************************)

\* std::pow(2.0, output_id)
Pow2(n) == 2 ^ n

\* static_cast<uint8_t>(x) of a double: the value itself when it fits; out of range the
\* conversion is undefined, and builds truncate (x86) or saturate (ARM).
CastU8(x) == IF x <= 255 THEN {x} ELSE {x % 256, 255}

\* The commands setStandardDigitalOut(output_id, signal_level) may build.
setStandardDigitalOutKeepsValue(output_id, signal_level) ==
  { [type_ |-> "SET_STD_DIGITAL_OUT", recipe_id_ |-> 2,
     std_digital_out_mask_ |-> m, std_digital_out_ |-> v] :
       m \in CastU8(Pow2(output_id)), v \in CastU8(Pow2(output_id)) }
setStandardDigitalOut(output_id, signal_level) ==
  { [type_ |-> "SET_STD_DIGITAL_OUT", recipe_id_ |-> 2,
     std_digital_out_mask_ |-> m, std_digital_out_ |-> v] :
       m \in CastU8(Pow2(output_id)),
       v \in IF signal_level THEN CastU8(Pow2(output_id)) ELSE {0} }

\* The caller calls setStandardDigitalOut: the command is built and sendCommand(robot_cmd) entered.
SetStandardDigitalOutCall ==
  /\ ioOp = "none"
  /\ \E id \in 0..MaxOutputId, level \in BOOLEAN :
       \E cmd \in setStandardDigitalOut(id, level) :
         /\ ioCmd' = cmd
         /\ ioArgs' = [fn |-> "setStandardDigitalOut", output_id |-> id, signal_level |-> level]
  /\ ioOp' = "setter"
  /\ ioPc' = "send"
  /\ ioDepth' = 1
  /\ ioAttempts' = 0 /\ ioFailures' = 0 /\ ioSent' = 0
  /\ UNCHANGED <<ioConn, ioLink, ioRecipes, ioFrequency, ioMajor, ioFrame, ioResult, recvVars, restVars>>

(***************************************************************************)
(* RTDEIOInterface: the other setters                                      *)
(***************************************************************************)

\* A double: a number, or not a number.
Double(v) == [nan |-> FALSE, v |-> v]
NaN == [nan |-> TRUE, v |-> 0]
isnan(x) == x.nan

\* The doubles passed to the setters: a ratio in [0;1], and NaN.
Doubles == {Double(1), NaN}

\* verifyValueIsWithin with the open interval ]min;max[.
verifyValueIsWithinOpen(value, min, max) ==
  IF isnan(min) \/ isnan(max) THEN "invalid_argument"
  ELSE IF isnan(value) THEN "invalid_argument"
  ELSE IF ~(value.v > min.v /\ value.v < max.v) THEN "range_error"
  ELSE "returned"

\* RTDEIOInterface::verifyValueIsWithin(value, min, max): how it ends. A comparison with NaN
\* is false.
verifyValueIsWithin(value, min, max) ==
  IF isnan(min) \/ isnan(max) THEN "invalid_argument"
  ELSE IF isnan(value) THEN "invalid_argument"
  ELSE IF ~(value.v >= min.v /\ value.v <= max.v) THEN "range_error"
  ELSE "returned"

\* The commands setToolDigitalOut(output_id, signal_level) may build.
setToolDigitalOut(output_id, signal_level) ==
  { [type_ |-> "SET_TOOL_DIGITAL_OUT", recipe_id_ |-> 3,
     std_tool_out_mask_ |-> m, std_tool_out_ |-> v] :
       m \in CastU8(Pow2(output_id)),
       v \in IF signal_level THEN CastU8(Pow2(output_id)) ELSE {0} }

\* The command setSpeedSlider(speed) builds: no call of verifyValueIsWithin.
setSpeedSliderOnAnalogRecipe(speed) ==
  { [type_ |-> "SET_SPEED_SLIDER", recipe_id_ |-> 5,
     speed_slider_mask_ |-> 1, speed_slider_fraction_ |-> speed] }
setSpeedSlider(speed) ==
  { [type_ |-> "SET_SPEED_SLIDER", recipe_id_ |-> 4,
     speed_slider_mask_ |-> 1, speed_slider_fraction_ |-> speed] }

\* The commands setAnalogOutputVoltage(output_id, voltage_ratio) and
\* setAnalogOutputCurrent(output_id, current_ratio) may build: no call of verifyValueIsWithin;
\* the output the setter does not assign is zero (specification, section 4.2).
setAnalogOutput(output_type, output_id, ratio) ==
  { [type_ |-> "SET_STD_ANALOG_OUT", recipe_id_ |-> 5,
     std_analog_output_mask_ |-> m, std_analog_output_type_ |-> output_type,
     std_analog_output_0_ |-> IF output_id = 0 THEN ratio ELSE Double(0),
     std_analog_output_1_ |-> IF output_id = 1 THEN ratio ELSE Double(0)] :
       m \in CastU8(Pow2(output_id)) }
setAnalogOutputVoltage(output_id, voltage_ratio) == setAnalogOutput(1, output_id, voltage_ratio)
setAnalogOutputCurrent(output_id, current_ratio) == setAnalogOutput(0, output_id, current_ratio)

\* A setter has built its command and enters sendCommand(robot_cmd).
SetterEnters(cmd, args) ==
  /\ ioOp = "none"
  /\ ioCmd' = cmd
  /\ ioArgs' = args
  /\ ioOp' = "setter"
  /\ ioPc' = "send"
  /\ ioDepth' = 1
  /\ ioAttempts' = 0 /\ ioFailures' = 0 /\ ioSent' = 0
  /\ UNCHANGED <<ioConn, ioLink, ioRecipes, ioFrequency, ioMajor, ioFrame, ioResult, recvVars, restVars>>

\* The caller calls setToolDigitalOut, with the first id, the last id of a byte's bits, or the
\* largest id passed.
SetToolDigitalOutCall ==
  /\ ioOp = "none"
  /\ \E id \in {0, 7, MaxOutputId}, level \in BOOLEAN :
       \E cmd \in setToolDigitalOut(id, level) :
         SetterEnters(cmd, [fn |-> "setToolDigitalOut", output_id |-> id,
                            signal_level |-> level])

\* The caller calls setSpeedSlider.
SetSpeedSliderCall ==
  /\ ioOp = "none"
  /\ \E speed \in Doubles :
       \E cmd \in setSpeedSlider(speed) :
         SetterEnters(cmd, [fn |-> "setSpeedSlider", value |-> speed])

\* The caller calls setAnalogOutputVoltage.
SetAnalogOutputVoltageCall ==
  /\ ioOp = "none"
  /\ \E id \in {0, 1}, voltage_ratio \in Doubles :
       \E cmd \in setAnalogOutputVoltage(id, voltage_ratio) :
         SetterEnters(cmd, [fn |-> "setAnalogOutputVoltage", output_id |-> id,
                            value |-> voltage_ratio])

\* The caller calls setAnalogOutputCurrent.
SetAnalogOutputCurrentCall ==
  /\ ioOp = "none"
  /\ \E id \in {0, 1}, current_ratio \in Doubles :
       \E cmd \in setAnalogOutputCurrent(id, current_ratio) :
         SetterEnters(cmd, [fn |-> "setAnalogOutputCurrent", output_id |-> id,
                            value |-> current_ratio])

(***************************************************************************)
(* RTDEIOInterface::sendCommand                                            *)
(***************************************************************************)

\* try { rtde_->send(cmd); return true; }: the frame goes out and this activation returns
\* true (to the setter, or to the activation that retried), or send raises.
sendCommandSendAgain ==
  /\ ioPc = "send"
  /\ ioAttempts' = ioAttempts + 1
  /\ IF RtdeOk(ioConn, ioLink) /\ ioCmd.recipe_id_ <= Len(ioRecipes)
       THEN /\ ioFrame' = Encode(ioCmd, ioRecipes)
            /\ ioSent' = ioSent + 1
            /\ IF ioDepth = 1
                 THEN /\ ioResult' = "true"
                      /\ ioOp' = "none" /\ ioPc' = "idle" /\ ioDepth' = 0
                 ELSE /\ ioPc' = "send" /\ ioDepth' = ioDepth - 1
                      /\ UNCHANGED <<ioResult, ioOp>>
            /\ UNCHANGED ioFailures
       ELSE /\ ioFailures' = ioFailures + 1
            /\ ioPc' = "catch"
            /\ UNCHANGED <<ioFrame, ioSent, ioResult, ioOp, ioDepth>>
  /\ UNCHANGED <<ioConn, ioLink, ioRecipes, ioFrequency, ioMajor, ioCmd, ioArgs, recvVars, restVars>>
sendCommandSend ==
  /\ ioPc = "send"
  /\ ioAttempts' = ioAttempts + 1
  /\ IF RtdeOk(ioConn, ioLink) /\ ioCmd.recipe_id_ <= Len(ioRecipes)
       THEN /\ ioFrame' = Encode(ioCmd, ioRecipes)
            /\ ioSent' = ioSent + 1
            /\ IF ioDepth = 1
                 THEN /\ ioResult' = "true"
                      /\ ioOp' = "none" /\ ioPc' = "idle" /\ ioDepth' = 0
                 ELSE /\ ioPc' = "fall" /\ ioDepth' = ioDepth - 1
                      /\ UNCHANGED <<ioResult, ioOp>>
            /\ UNCHANGED ioFailures
       ELSE /\ ioFailures' = ioFailures + 1
            /\ ioPc' = "catch"
            /\ UNCHANGED <<ioFrame, ioSent, ioResult, ioOp, ioDepth>>
  /\ UNCHANGED <<ioConn, ioLink, ioRecipes, ioFrequency, ioMajor, ioCmd, ioArgs, recvVars, restVars>>

\* catch: if (rtde_ != nullptr) if (rtde_->isConnected()) rtde_->disconnect();
sendCommandCatch ==
  /\ ioPc = "catch"
  /\ IF isConnected(ioConn)
       THEN ioConn' = "DISCONNECTED" /\ ioLink' = "down"
       ELSE UNCHANGED <<ioConn, ioLink>>
  /\ ioPc' = "test"
  /\ UNCHANGED <<ioRecipes, ioFrequency, ioMajor, ioOp, ioDepth, ioCmd, ioArgs, ioAttempts,
                 ioFailures, ioSent, ioFrame, ioResult, recvVars, restVars>>

\* if (!rtde_->isConnected()) { reconnect(); ... }: reconnect() is entered, or the function's
\* end is reached.
sendCommandTest ==
  /\ ioPc = "test"
  /\ ioPc' = IF ~isConnected(ioConn) THEN "rc_connect" ELSE "fall"
  /\ UNCHANGED <<ioConn, ioLink, ioRecipes, ioFrequency, ioMajor, ioOp, ioDepth, ioCmd, ioArgs,
                 ioAttempts, ioFailures, ioSent, ioFrame, ioResult, recvVars, restVars>>

\* The end of sendCommand is reached without a return statement: the activation returns an
\* indeterminate value, to the activation that called it or to the setter, which returns it.
sendCommandFallsOff ==
  /\ ioPc = "fall"
  /\ IF ioDepth > 1
       THEN ioDepth' = ioDepth - 1 /\ UNCHANGED <<ioPc, ioOp, ioResult>>
       ELSE /\ ioResult' \in {"true", "false"}
            /\ ioOp' = "none" /\ ioPc' = "idle" /\ ioDepth' = 0
  /\ UNCHANGED <<ioConn, ioLink, ioRecipes, ioFrequency, ioMajor, ioCmd, ioArgs, ioAttempts,
                 ioFailures, ioSent, ioFrame, recvVars, restVars>>

(***************************************************************************)
(* RTDEIOInterface::reconnect, called by the caller or by sendCommand      *)
(***************************************************************************)

\* An RTDE call of reconnect() raises: the exception leaves reconnect() and, uncaught, every
\* sendCommand activation and the setter.
IOReconnectThrows ==
  /\ ioOp' = "none" /\ ioPc' = "idle" /\ ioDepth' = 0
  /\ ioResult' = "threw"

\* The caller calls reconnect().
IOReconnectCall ==
  /\ ioOp = "none"
  /\ ioOp' = "reconnect"
  /\ ioPc' = "rc_connect"
  /\ UNCHANGED <<ioConn, ioLink, ioRecipes, ioFrequency, ioMajor, ioDepth, ioCmd, ioArgs,
                 ioAttempts, ioFailures, ioSent, ioFrame, ioResult, recvVars, restVars>>

\* rtde_->connect(): a new socket and a new session, or the connect fails and raises.
IOReconnectConnect ==
  /\ ioPc = "rc_connect"
  /\ \/ /\ ioConn' = "CONNECTED" /\ ioLink' = "up"
        /\ ioRecipes' = <<>>
        /\ ioPc' = "rc_negotiate"
        /\ UNCHANGED <<ioOp, ioDepth, ioResult>>
     \/ /\ ioLink' = "down"
        /\ IOReconnectThrows
        /\ UNCHANGED <<ioConn, ioRecipes>>
  /\ UNCHANGED <<ioFrequency, ioMajor, ioCmd, ioArgs, ioAttempts, ioFailures, ioSent, ioFrame,
                 recvVars, restVars>>

\* rtde_->negotiateProtocolVersion(); getControllerVersion();
IOReconnectNegotiate ==
  /\ ioPc = "rc_negotiate"
  /\ IF RtdeOk(ioConn, ioLink)
       THEN ioPc' = "rc_output" /\ UNCHANGED <<ioOp, ioDepth, ioResult>>
       ELSE IOReconnectThrows
  /\ UNCHANGED <<ioConn, ioLink, ioRecipes, ioFrequency, ioMajor, ioCmd, ioArgs, ioAttempts,
                 ioFailures, ioSent, ioFrame, recvVars, restVars>>

\* frequency = 125 or 500; rtde_->sendOutputSetup(state_names, frequency);
IOReconnectOutputSetup ==
  /\ ioPc = "rc_output"
  /\ IF RtdeOk(ioConn, ioLink)
       THEN /\ ioFrequency' = FrequencyFor(ioMajor)
            /\ ioPc' = "rc_input"
            /\ UNCHANGED <<ioOp, ioDepth, ioResult>>
       ELSE IOReconnectThrows /\ UNCHANGED ioFrequency
  /\ UNCHANGED <<ioConn, ioLink, ioRecipes, ioMajor, ioCmd, ioArgs, ioAttempts, ioFailures,
                 ioSent, ioFrame, recvVars, restVars>>

\* rtde_->sendInputSetup(...), once per recipe: the controller numbers the recipes in order.
IOReconnectInputSetup ==
  /\ ioPc = "rc_input"
  /\ IF RtdeOk(ioConn, ioLink)
       THEN /\ ioRecipes' = Append(ioRecipes, ReconnectInputRecipes[Len(ioRecipes) + 1])
            /\ ioPc' = IF Len(ioRecipes) + 1 = Len(ReconnectInputRecipes)
                         THEN "rc_start" ELSE "rc_input"
            /\ UNCHANGED <<ioOp, ioDepth, ioResult>>
       ELSE IOReconnectThrows /\ UNCHANGED ioRecipes
  /\ UNCHANGED <<ioConn, ioLink, ioFrequency, ioMajor, ioCmd, ioArgs, ioAttempts, ioFailures,
                 ioSent, ioFrame, recvVars, restVars>>

\* robot_state_ = make_shared<RobotState>(); rtde_->sendStart();
IOReconnectStart ==
  /\ ioPc = "rc_start"
  /\ IF RtdeOk(ioConn, ioLink)
       THEN /\ ioConn' = "STARTED"
            /\ ioPc' = "rc_return"
            /\ UNCHANGED <<ioOp, ioDepth, ioResult>>
       ELSE IOReconnectThrows /\ UNCHANGED ioConn
  /\ UNCHANGED <<ioLink, ioRecipes, ioFrequency, ioMajor, ioCmd, ioArgs, ioAttempts,
                 ioFailures, ioSent, ioFrame, recvVars, restVars>>

\* sleep 100 ms; return true: to the caller, or to sendCommand, which goes on with
\* sendCommand(cmd), a new activation.
IOReconnectReturn ==
  /\ ioPc = "rc_return"
  /\ IF ioOp = "setter"
       THEN /\ ioDepth' = ioDepth + 1
            /\ ioPc' = "send"
            /\ UNCHANGED ioOp
       ELSE /\ ioOp' = "none" /\ ioPc' = "idle"
            /\ UNCHANGED ioDepth
  /\ UNCHANGED <<ioConn, ioLink, ioRecipes, ioFrequency, ioMajor, ioCmd, ioArgs, ioAttempts,
                 ioFailures, ioSent, ioFrame, ioResult, recvVars, restVars>>

\* The I/O session's socket is killed.
IOKillSocket ==
  /\ isConnected(ioConn) /\ ioLink = "up"
  /\ ioAttempts < MaxAttempts
  /\ ioLink' = "down"
  /\ UNCHANGED <<ioConn, ioRecipes, ioFrequency, ioMajor, ioOp, ioPc, ioDepth, ioCmd, ioArgs,
                 ioAttempts, ioFailures, ioSent, ioFrame, ioResult, recvVars, restVars>>

(***************************************************************************)
(* The controller's standard digital outputs (from the specification,      *)
(* section 4.6) and RTDEReceiveInterface::getDigitalOutState               *)
(***************************************************************************)

\* Bit i of the unsigned integer x.
BitAt(x, i) == (x \div (2 ^ i)) % 2

RECURSIVE MergeBits(_, _, _, _)
\* Bits 0..i of the result of a masked write: the bit of value where mask has a 1, the bit
\* of out elsewhere.
MergeBits(out, mask_, value, i) ==
  IF i < 0 THEN 0
  ELSE (2 ^ i) * (IF BitAt(mask_, i) = 1 THEN BitAt(value, i) ELSE BitAt(out, i))
       + MergeBits(out, mask_, value, i - 1)

\* out := (out AND NOT mask) OR (value AND mask), mask and value being 8 bits wide.
ApplyDigitalOut(out, mask_, value) ==
  (out \div 256) * 256 + MergeBits(out, mask_, value, 7)

\* std::bitset<64>(output_bits).test(output_id)
getDigitalOutStateNextBit(output_bits, output_id) == BitAt(output_bits, output_id + 1) = 1
getDigitalOutState(output_bits, output_id) == BitAt(output_bits, output_id) = 1

NoWrite == [frame |-> NoFrame]

\* setStandardDigitalOut(id, level) returns true: the command was built and sendCommand's
\* rtde_->send(cmd) put its frame on the wire.
DigitalOutWrite ==
  /\ inflight = NoWrite
  /\ \E id \in 0..MaxOutputId, level \in BOOLEAN :
       \E cmd \in setStandardDigitalOut(id, level) :
         inflight' = [frame |-> Encode(cmd, ioRecipes), output_id |-> id, signal_level |-> level]
  /\ UNCHANGED <<actual_digital_output_bits, lastApplied, recvVars, ioVars, nameVars, wireVars, scVars, asyncVars, ccVars>>

\* The controller's next tick: the frame received is applied to the outputs.
ControllerTick ==
  /\ inflight # NoWrite
  /\ actual_digital_output_bits' =
       ApplyDigitalOut(actual_digital_output_bits,
                       inflight.frame.fields["standard_digital_output_mask"],
                       inflight.frame.fields["standard_digital_output"])
  /\ lastApplied' = [output_id |-> inflight.output_id, signal_level |-> inflight.signal_level,
                     before |-> actual_digital_output_bits]
  /\ inflight' = NoWrite
  /\ UNCHANGED <<recvVars, ioVars, nameVars, wireVars, scVars, asyncVars, ccVars>>

\* No frame in flight; the standard outputs are off, a tool output (bit 16) is on or off.
InitDig ==
  /\ inflight = NoWrite
  /\ actual_digital_output_bits \in {0, 2 ^ 16}
  /\ lastApplied = [output_id |-> 0, signal_level |-> FALSE, before |-> actual_digital_output_bits]

NextDigital == DigitalOutWrite \/ ControllerTick

(***************************************************************************)
(* ScriptClient (src/src/script_client.cpp)                                *)
(***************************************************************************)

\* The characters of script texts: the marker sign, a digit, a blank, a newline, a letter.
Chars == {"$", "4", " ", "\n", "a"}

\* The script texts sendScript() may load; an empty custom script is replaced by UR_SCRIPT.
Texts == UNION {[1..k -> Chars] : k \in 1..MaxScriptLen}

\* The (major, minor) versions of the controllers the client is constructed for.
ControllerVersions == {<<3, 9>>, <<4, 3>>, <<4, 4>>, <<5, 0>>}

\* The commands passed to sendScriptCommand().
ScriptCommands == {<<>>, <<"a", "\n">>}

\* std::string::npos
npos == -1

\* std::string::find(ch, from): the first position >= from holding ch, counted from 0.
Find(str, ch, from) ==
  LET hits == {i \in from..(Len(str) - 1) : str[i + 1] = ch}
  IN  IF hits = {} THEN npos ELSE CHOOSE i \in hits : \A j \in hits : i <= j

\* std::string::erase(pos, count): count is clipped to the end of the string.
Erase(str, pos, count) ==
  LET cnt == IF count > Len(str) - pos THEN Len(str) - pos ELSE count
  IN  SubSeq(str, 1, pos) \o SubSeq(str, pos + cnt + 1, Len(str))

\* std::string::insert(pos, text)
Insert(str, pos, text) == SubSeq(str, 1, pos) \o text \o SubSeq(str, pos + 1, Len(str))

\* The count of ur_script.erase(n, ur_script.find("\n", n) - n + 1), computed in size_t:
\* without a newline the difference is npos - n + 1, which wraps to 0 for n = 0 and is
\* larger than any string otherwise.
EraseLineCount(str, pos) ==
  LET nl == Find(str, "\n", pos)
  IN  IF nl # npos THEN nl - pos + 1
      ELSE IF pos = 0 THEN 0 ELSE Len(str)

\* std::stoi of a one-character string: its value for a digit, -1 where stoi raises
\* std::invalid_argument.
Stoi(c) ==
  LET digits == <<"0", "1", "2", "3", "4", "5", "6", "7", "8", "9">>
  IN  IF \E d \in 1..10 : digits[d] = c
        THEN (CHOOSE d \in 1..10 : digits[d] = c) - 1
        ELSE -1

\* The version test of sendScript(): the controller's (major, minor) against the marker's.
VersionFits(major_needed, minor_needed) ==
  \/ major_control_version_ > major_needed
  \/ major_control_version_ = major_needed /\ minor_control_version_ >= minor_needed

\* ScriptClient::isConnected
scIsConnected == conn_state_ = "CONNECTED"

\* A call of the script client ends; the locals of sendScript() are gone.
ScriptReturns(op, how, text) ==
  /\ scPc' = "idle"
  /\ ur_script' = <<>>
  /\ find_n' = npos
  /\ scLast' = op
  /\ scRet' = how
  /\ written' = text

\* ScriptClient::connect(): the socket is opened and connected, or boost::asio::connect raises.
ScriptConnect ==
  /\ scPc = "idle"
  /\ \/ /\ socket_' = "connected"
        /\ conn_state_' = "CONNECTED" /\ ScriptReturns("connect", "returned", <<>>)
     \/ /\ socket_' = "open"
        /\ UNCHANGED conn_state_ /\ ScriptReturns("connect", "threw", <<>>)
  /\ UNCHANGED <<major_control_version_, minor_control_version_, script_text, ioReads,
                 recvVars, ioVars, nameVars, digVars, asyncVars, ccVars>>

\* ScriptClient::disconnect()
ScriptDisconnectKeepsState ==
  /\ scPc = "idle"
  /\ socket_' = "null"
  /\ UNCHANGED conn_state_
  /\ ScriptReturns("disconnect", "returned", <<>>)
  /\ UNCHANGED <<major_control_version_, minor_control_version_, script_text, ioReads,
                 recvVars, ioVars, nameVars, digVars, asyncVars, ccVars>>
ScriptDisconnect ==
  /\ scPc = "idle"
  /\ socket_' = "null"
  /\ conn_state_' = "DISCONNECTED"
  /\ ScriptReturns("disconnect", "returned", <<>>)
  /\ UNCHANGED <<major_control_version_, minor_control_version_, script_text, ioReads,
                 recvVars, ioVars, nameVars, digVars, asyncVars, ccVars>>

\* boost::asio::write(*socket_, buffer(text)) and return true, or the write raises, as it
\* does on a socket that has no connection.
ScriptWrite(op, text) ==
  IF scIsConnected /\ text # <<>>
    THEN \/ socket_ = "connected" /\ ScriptReturns(op, "true", text)
         \/ ScriptReturns(op, "threw", <<>>)
    ELSE ScriptReturns(op, "false", <<>>)

\* ScriptClient::sendScriptCommand(cmd_str)
sendScriptCommand ==
  /\ scPc = "idle"
  /\ \E cmd_str \in ScriptCommands : ScriptWrite("sendScriptCommand", cmd_str)
  /\ UNCHANGED <<conn_state_, major_control_version_, minor_control_version_, script_text,
                 recvVars, ioVars, nameVars, wireVars, digVars, asyncVars, ccVars>>

\* The files a caller may name: one that holds a script, one that holds nothing, and one that
\* cannot be opened.
CustomScript == <<"a", "\n">>
ScriptFiles == {"custom.script", "empty.script", "missing.script"}

\* loadScript(file_name, str): whether the file could be read, and what str holds afterwards.
loadScript(file_name, str) ==
  CASE file_name = "custom.script" -> [ok |-> TRUE, str |-> CustomScript]
    [] file_name = "empty.script" -> [ok |-> TRUE, str |-> <<>>]
    [] OTHER -> [ok |-> FALSE, str |-> str]

\* ScriptClient::setScriptFile(file_name)
setScriptFile ==
  /\ scPc = "idle"
  /\ script_file_name_' \in ScriptFiles \cup {""}
  /\ UNCHANGED <<lower_range_name, upper_range_name, recvVars, ioVars, digVars, scVars,
                 asyncVars, ccVars, wireVars>>

\* The text sendScript() holds in ur_script when it starts to look for markers: the custom
\* file's if one is assigned and loads, and UR_SCRIPT if ur_script is empty after that.
LoadedScriptOfFile ==
  IF script_file_name_ # ""
    THEN LET file == loadScript(script_file_name_, <<>>)
         IN  IF file.ok THEN file.str ELSE <<>>
    ELSE script_text
LoadedScript ==
  LET custom == IF script_file_name_ # ""
                  THEN LET file == loadScript(script_file_name_, <<>>)
                       IN  IF file.ok THEN file.str ELSE <<>>
                  ELSE <<>>
  IN  IF custom = <<>> THEN script_text ELSE custom

\* ScriptClient::sendScript(), up to the loop: the script is loaded and the first marker looked
\* for.
sendScriptLoad ==
  /\ scPc = "idle"
  /\ ur_script' = LoadedScript
  /\ find_n' = Find(LoadedScript, "$", 0)
  /\ scPc' = IF find_n' = npos THEN "send" ELSE "marker"
  /\ scLast' = "sendScript"
  /\ scRet' = "none"
  /\ written' = <<>>
  /\ UNCHANGED <<conn_state_, major_control_version_, minor_control_version_, script_text,
                 recvVars, ioVars, nameVars, wireVars, digVars, asyncVars, ccVars>>

\* One turn of the loop of sendScript(): the marker at n is read (at() raises past the end),
\* tested for blanks, converted (stoi raises on a non-digit), the line is kept with the marker
\* blanked or erased from the marker on, and the next marker is looked for.
sendScriptMarker ==
  /\ scPc = "marker"
  /\ IF find_n + 3 >= Len(ur_script)
       THEN ScriptReturns("sendScript", "threw", <<>>)
       ELSE LET major_str == ur_script[find_n + 3]
                minor_str == ur_script[find_n + 4]
            IN  IF major_str = " " \/ minor_str = " "
                  THEN ScriptReturns("sendScript", "false", <<>>)
                  ELSE IF Stoi(major_str) < 0 \/ Stoi(minor_str) < 0
                    THEN ScriptReturns("sendScript", "threw", <<>>)
                    ELSE /\ ur_script' =
                              IF VersionFits(Stoi(major_str), Stoi(minor_str))
                                THEN Insert(Erase(ur_script, find_n, 4), find_n,
                                            <<" ", " ", " ", " ">>)
                                ELSE Erase(ur_script, find_n, EraseLineCount(ur_script, find_n))
                         /\ find_n' = Find(ur_script', "$", 0)
                         /\ scPc' = IF find_n' = npos THEN "send" ELSE "marker"
                         /\ UNCHANGED <<scLast, scRet, written>>
  /\ UNCHANGED <<conn_state_, major_control_version_, minor_control_version_, script_text,
                 recvVars, ioVars, nameVars, wireVars, digVars, asyncVars, ccVars>>

\* The end of sendScript(): the text left is written if the client is connected.
sendScriptSend ==
  /\ scPc = "send"
  /\ ScriptWrite("sendScript", ur_script)
  /\ UNCHANGED <<conn_state_, major_control_version_, minor_control_version_, script_text,
                 recvVars, ioVars, nameVars, wireVars, digVars, asyncVars, ccVars>>

\* ScriptClient::sendScript(file_name): false if the file cannot be loaded, else its text is
\* written if the client is connected.
sendScriptFile ==
  /\ scPc = "idle"
  /\ \E file_name \in ScriptFiles :
       LET file == loadScript(file_name, <<>>)
       IN  IF ~file.ok THEN ScriptReturns("sendScriptFile", "false", <<>>)
                       ELSE ScriptWrite("sendScriptFile", file.str)
  /\ UNCHANGED <<conn_state_, major_control_version_, minor_control_version_, script_text,
                 recvVars, ioVars, nameVars, wireVars, digVars, asyncVars, ccVars>>

\* ScriptClient::ScriptClient for a controller of the given version, and the script at hand.
InitScriptFor(text, version) ==
  /\ conn_state_ = "DISCONNECTED"
  /\ major_control_version_ = version[1]
  /\ minor_control_version_ = version[2]
  /\ script_text = text
  /\ ur_script = <<>>
  /\ find_n = npos
  /\ scPc = "idle"
  /\ scLast = "ctor"
  /\ scRet = "none"
  /\ written = <<>>

InitScript == \E text \in Texts, version \in ControllerVersions : InitScriptFor(text, version)

NextScript ==
  \/ ScriptConnect \/ ScriptDisconnect
  \/ sendScriptCommand \/ sendScriptFile
  \/ sendScriptLoad \/ sendScriptMarker \/ sendScriptSend

(***************************************************************************)
(* Asynchronous path execution: the client of the example                  *)
(* (src/unnamed/part_001), and the control script's progress register      *)
(* (from the specification, sections 4.4 and 4.5; the script, movePath()   *)
(* and getAsyncOperationProgress() are not among the sources at hand)      *)
(***************************************************************************)

\* The entries main() adds to its path.
PathWaypoints == 5

\* getAsyncOperationProgress(): the snapshot's value; main() has now seen the controller's
\* value if the snapshot is up to date.
ReadProgress ==
  /\ polled' = (polled \/ async_snapshot = async_progress)
  /\ observed' = IF observed # <<>> /\ observed[Len(observed)] = async_snapshot
                   THEN observed ELSE Append(observed, async_snapshot)

\* rtde_control.movePath(path, true): returns once the script has acknowledged the command.
ClientMovePathAsync ==
  /\ pathPc \in {"call", "finished"}
  /\ asyncCommands < MaxAsyncCommands
  /\ asyncCommands' = asyncCommands + 1
  /\ asyncState' = "accepted"
  /\ pathPc' = "wait_start"
  /\ excursions' = 0
  /\ polled' = FALSE
  /\ observed' = <<>>
  /\ UNCHANGED <<async_progress, async_snapshot, Waypoint, recvVars, ioVars, nameVars, wireVars, digVars, scVars,
                 ccVars>>

\* while (getAsyncOperationProgress() < 0) sleep 10 ms; then int Waypoint = -1;
ClientWaitStart ==
  /\ pathPc = "wait_start"
  /\ ReadProgress
  /\ IF async_snapshot < 0
       THEN UNCHANGED <<pathPc, Waypoint>>
       ELSE pathPc' = "wait_end" /\ Waypoint' = -1
  /\ UNCHANGED <<async_progress, async_snapshot, asyncState, asyncCommands, excursions,
                 recvVars, ioVars, nameVars, wireVars, digVars, scVars, ccVars>>

\* while (getAsyncOperationProgress() >= 0) { sleep 200 ms; ...
ClientWaitEnd ==
  /\ pathPc = "wait_end"
  /\ ReadProgress
  /\ pathPc' = IF async_snapshot >= 0 THEN "read" ELSE "finished"
  /\ UNCHANGED <<async_progress, async_snapshot, asyncState, Waypoint, asyncCommands,
                 excursions, recvVars, ioVars, nameVars, wireVars, digVars, scVars, ccVars>>

\* ... int NewWaypoint = getAsyncOperationProgress(); if (NewWaypoint != Waypoint) Waypoint =
\* NewWaypoint; }
ClientReadWaypoint ==
  /\ pathPc = "read"
  /\ ReadProgress
  /\ Waypoint' = async_snapshot
  /\ pathPc' = "wait_end"
  /\ UNCHANGED <<async_progress, async_snapshot, asyncState, asyncCommands, excursions,
                 recvVars, ioVars, nameVars, wireVars, digVars, scVars, ccVars>>

\* The receive loop decodes a frame: the snapshot takes the register's value.
ReceiveProgress ==
  /\ async_snapshot # async_progress
  /\ async_snapshot' = async_progress
  /\ UNCHANGED <<async_progress, asyncState, pathPc, Waypoint, asyncCommands, excursions, polled,
                 observed, recvVars, ioVars, nameVars, wireVars, digVars, scVars, ccVars>>

\* What a step of the control script leaves alone. The script holds every value of the register
\* for longer than the client's polling period, so the client has read the value it leaves.
ScriptKeeps ==
  /\ polled
  /\ polled' = FALSE
  /\ UNCHANGED <<async_snapshot, pathPc, Waypoint, asyncCommands, observed,
                 recvVars, ioVars, nameVars, wireVars, digVars, scVars, ccVars>>

\* The script enters the async motion: it heads for waypoint 0.
ScriptStartsAsync ==
  /\ asyncState = "accepted"
  /\ async_progress' = 0
  /\ asyncState' = "moving"
  /\ excursions' = excursions + 1
  /\ ScriptKeeps

\* The script reaches a waypoint and heads for the next.
ScriptReachesWaypoint ==
  /\ asyncState = "moving"
  /\ async_progress < PathWaypoints - 1
  /\ async_progress' = async_progress + 1
  /\ UNCHANGED <<asyncState, excursions>>
  /\ ScriptKeeps

\* The script reaches the last waypoint and leaves the async motion.
ScriptLeavesAsyncKeepsProgress ==
  /\ asyncState = "moving"
  /\ async_progress = PathWaypoints - 1
  /\ asyncState' = "idle"
  /\ UNCHANGED <<async_progress, excursions>>
  /\ ScriptKeeps
ScriptLeavesAsync ==
  /\ asyncState = "moving"
  /\ async_progress = PathWaypoints - 1
  /\ async_progress' = -1
  /\ asyncState' = "idle"
  /\ UNCHANGED excursions
  /\ ScriptKeeps

\* main() is about to start the async path; no async motion is in flight.
InitAsync ==
  /\ async_progress = -1
  /\ async_snapshot = -1
  /\ asyncState = "idle"
  /\ pathPc = "call"
  /\ Waypoint = -1
  /\ asyncCommands = 0
  /\ excursions = 0
  /\ polled = FALSE
  /\ observed = <<>>

ClientStep == ClientMovePathAsync \/ ClientWaitStart \/ ClientWaitEnd \/ ClientReadWaypoint
ScriptStep == ScriptStartsAsync \/ ScriptReachesWaypoint \/ ScriptLeavesAsync

NextAsync ==
  \/ ClientMovePathAsync \/ ClientWaitStart \/ ClientWaitEnd \/ ClientReadWaypoint
  \/ ReceiveProgress
  \/ ScriptStartsAsync \/ ScriptReachesWaypoint \/ ScriptLeavesAsync

(***************************************************************************)
(* Command channel: RTDEControlInterface::sendCommand, sendClearCommand    *)
(* and getControlScriptState are declared in the header                    *)
(* (src/src/script_client.cpp) but not implemented in the sources at hand; *)
(* their steps and the control script's are those of the specification,    *)
(* section 4.4                                                             *)
(***************************************************************************)

UR_CONTROLLER_RDY_FOR_CMD == 1
UR_CONTROLLER_DONE_WITH_CMD == 2

\* Command codes: NOOP, and MOVEJ, MOVEL and MOVEJ_IK for the commands sent.
NOOP == 0
CommandCodes == {1, 2, 3}

\* The value of output_int_register_(base+0) while the script executes a command.
ScriptBusy == 0

\* What a step of the caller in sendCommand() leaves alone.
CommandKeeps == UNCHANGED <<done_register, done_snapshot, recvVars, ioVars, nameVars, wireVars, digVars, scVars,
                            asyncVars>>

\* Steps 1 and 2: the command record is built and its input frame sent; the controller's
\* register takes the command code.
CommandSend ==
  /\ ccPc = "idle"
  /\ \E code \in CommandCodes :
       /\ ccCode' = code
       /\ ccFrames' = <<code>>
       /\ cmd_register' = code
  /\ ccDoneSeen' = FALSE
  /\ ccRet' = "none"
  /\ ccPc' = "poll"
  /\ CommandKeeps

\* Step 3: a poll of the snapshot finds DONE_WITH_CMD.
CommandPollDone ==
  /\ ccPc = "poll"
  /\ done_snapshot = UR_CONTROLLER_DONE_WITH_CMD
  /\ ccDoneSeen' = TRUE
  /\ ccPc' = "clear"
  /\ UNCHANGED <<ccCode, ccFrames, ccRet, cmd_register>>
  /\ CommandKeeps

\* Step 3, the wait expires, or a controller stop is seen: an error is raised, the command is
\* not retried, the motion is left to the caller.
CommandTimeoutClears ==
  /\ ccPc = "poll"
  /\ done_snapshot # UR_CONTROLLER_DONE_WITH_CMD
  /\ ccRet' \in {"timeout", "controller"}
  /\ ccFrames' = Append(ccFrames, NOOP)
  /\ cmd_register' = NOOP
  /\ ccPc' = "idle"
  /\ UNCHANGED <<ccCode, ccDoneSeen>>
  /\ CommandKeeps
CommandTimeout ==
  /\ ccPc = "poll"
  /\ done_snapshot # UR_CONTROLLER_DONE_WITH_CMD
  /\ ccRet' \in {"timeout", "controller"}
  /\ ccPc' = "idle"
  /\ UNCHANGED <<ccCode, ccFrames, ccDoneSeen, cmd_register>>
  /\ CommandKeeps

\* Steps 4 and 5: the clear frame writes NOOP to the command register; the call returns.
CommandClear ==
  /\ ccPc = "clear"
  /\ ccFrames' = Append(ccFrames, NOOP)
  /\ cmd_register' = NOOP
  /\ ccRet' = "true"
  /\ ccPc' = "idle"
  /\ UNCHANGED <<ccCode, ccDoneSeen>>
  /\ CommandKeeps

\* What a step of the control script or of the receive loop leaves alone.
MailboxKeeps == UNCHANGED <<ccPc, ccCode, ccFrames, ccDoneSeen, ccRet, cmd_register, recvVars,
                            ioVars, nameVars, wireVars, digVars, scVars, asyncVars>>

\* The script, ready, observes a command code and starts to execute it.
ScriptAcceptsCommand ==
  /\ done_register = UR_CONTROLLER_RDY_FOR_CMD
  /\ cmd_register # NOOP
  /\ done_register' = ScriptBusy
  /\ UNCHANGED done_snapshot
  /\ MailboxKeeps

\* The script has performed the action and writes the done marker.
ScriptDoneWithCommand ==
  /\ done_register = ScriptBusy
  /\ done_register' = UR_CONTROLLER_DONE_WITH_CMD
  /\ UNCHANGED done_snapshot
  /\ MailboxKeeps

\* The script observes NOOP after a command and reports ready again.
ScriptReadyAgain ==
  /\ done_register = UR_CONTROLLER_DONE_WITH_CMD
  /\ cmd_register = NOOP
  /\ done_register' = UR_CONTROLLER_RDY_FOR_CMD
  /\ UNCHANGED done_snapshot
  /\ MailboxKeeps

\* The receive loop decodes a frame: the snapshot takes the done register's value.
ReceiveDone ==
  /\ done_snapshot # done_register
  /\ done_snapshot' = done_register
  /\ UNCHANGED done_register
  /\ MailboxKeeps

\* No command is being sent; the script is ready for one.
InitCmd ==
  /\ ccPc = "idle"
  /\ ccCode = NOOP
  /\ ccFrames = <<>>
  /\ ccDoneSeen = FALSE
  /\ ccRet = "none"
  /\ cmd_register = NOOP
  /\ done_register = UR_CONTROLLER_RDY_FOR_CMD
  /\ done_snapshot = UR_CONTROLLER_RDY_FOR_CMD

NextCommand ==
  \/ CommandSend \/ CommandPollDone \/ CommandTimeout \/ CommandClear
  \/ ScriptAcceptsCommand \/ ScriptDoneWithCommand \/ ScriptReadyAgain
  \/ ReceiveDone

(***************************************************************************)
(* The specifications                                                      *)
(***************************************************************************)

\* RTDEIOInterface::RTDEIOInterface has run: connected, recipes declared, streaming started.
InitIO ==
  /\ ioConn = "STARTED" /\ ioLink = "up"
  /\ ioRecipes = CtorInputRecipes
  /\ ioMajor \in ControllerMajors
  /\ ioFrequency = FrequencyFor(ioMajor)
  /\ ioOp = "none" /\ ioPc = "idle" /\ ioDepth = 0
  /\ ioCmd = NoCmd
  /\ ioArgs = [fn |-> "none"]
  /\ ioAttempts = 0 /\ ioFailures = 0 /\ ioSent = 0
  /\ ioFrame = NoFrame
  /\ ioResult = "none"

NextIO ==
  \/ SetStandardDigitalOutCall
  \/ sendCommandSend \/ sendCommandCatch \/ sendCommandTest \/ sendCommandFallsOff
  \/ IOReconnectCall \/ IOReconnectConnect \/ IOReconnectNegotiate \/ IOReconnectOutputSetup
  \/ IOReconnectInputSetup \/ IOReconnectStart \/ IOReconnectReturn
  \/ IOKillSocket

(***************************************************************************)
(* RTDEIOInterface::isProgramRunning                                       *)
(***************************************************************************)

\* enum RobotStatus
ROBOT_STATUS_POWER_ON == 0
ROBOT_STATUS_PROGRAM_RUNNING == 1

\* sizeof(uint32_t)
SizeofUint32 == 4

\* The values of robot_status_bits a frame may carry: the four status bits, and one above.
RobotStatusValues == 0..31

\* std::bitset<N>(value).test(pos): value is cut to its N low bits.
BitsetTest(N, value, pos) == BitAt(value % (2 ^ N), pos) = 1

\* std::bitset<sizeof(uint32_t)> status_bits(robot_state_->getRobot_status());
\* return status_bits.test(RobotStatus::ROBOT_STATUS_PROGRAM_RUNNING);
isProgramRunningTestsPowerOn(robot_status) ==
  BitsetTest(SizeofUint32, robot_status, ROBOT_STATUS_POWER_ON)
isProgramRunning(robot_status) ==
  BitsetTest(SizeofUint32, robot_status, ROBOT_STATUS_PROGRAM_RUNNING)

\* The caller calls isProgramRunning(): rtde_->receiveData(robot_state_) takes the next
\* output frame of a started session, or raises on a session without a live connection, and
\* the exception leaves isProgramRunning().
IsProgramRunningCall ==
  /\ ioOp = "none"
  /\ ioReads < MaxReads
  /\ \/ /\ ioConn = "STARTED" /\ ioLink = "up"
        /\ \E robot_status \in RobotStatusValues :
             /\ ioArgs' = [fn |-> "isProgramRunning", robot_status |-> robot_status]
             /\ ioResult' = IF isProgramRunning(robot_status) THEN "true" ELSE "false"
        /\ ioReads' = ioReads + 1
     \/ /\ ~RtdeOk(ioConn, ioLink)
        /\ ioArgs' = [fn |-> "isProgramRunning"]
        /\ ioResult' = "threw"
        /\ UNCHANGED ioReads
  /\ UNCHANGED <<ioConn, ioLink, ioRecipes, ioFrequency, ioMajor, ioOp, ioPc, ioDepth, ioCmd,
                 ioAttempts, ioFailures, ioSent, ioFrame, socket_, recvVars, digVars, scVars,
                 asyncVars, ccVars, nameVars>>

\* The doubles verifyValueIsWithin is applied to: 0..MaxDouble units, and NaN.
MaxDouble == 4
VerifyDoubles == {Double(v) : v \in 0..MaxDouble} \cup {NaN}

\* A call of verifyValueIsWithin(value, min, max): it returns, or leaves with one of its two
\* exceptions.
VerifyValueIsWithinCall ==
  /\ ioOp = "none"
  /\ \E value \in VerifyDoubles, min \in VerifyDoubles, max \in VerifyDoubles :
       /\ ioArgs' = [fn |-> "verifyValueIsWithin", value |-> value, min |-> min, max |-> max]
       /\ ioResult' = verifyValueIsWithin(value, min, max)
  /\ UNCHANGED <<ioConn, ioLink, ioRecipes, ioFrequency, ioMajor, ioOp, ioPc, ioDepth, ioCmd,
                 ioAttempts, ioFailures, ioSent, ioFrame, recvVars, restVars>>

NextVerify == VerifyValueIsWithinCall

\* isProgramRunning(), reconnect() and the link.
NextIOStatus ==
  \/ IsProgramRunningCall
  \/ IOReconnectCall \/ IOReconnectConnect \/ IOReconnectNegotiate \/ IOReconnectOutputSetup
  \/ IOReconnectInputSetup \/ IOReconnectStart \/ IOReconnectReturn
  \/ IOKillSocket

\* The same, the caller calling any of the five setters.
NextIOSetters ==
  \/ NextIO
  \/ SetToolDigitalOutCall \/ SetSpeedSliderCall
  \/ SetAnalogOutputVoltageCall \/ SetAnalogOutputCurrentCall

(***************************************************************************)
(* RTDEControlInterface: the names of the registers of its window          *)
(***************************************************************************)

\* The register window (specification, section 4.4): its base offset is 0, or 24 when the
\* caller asks for the upper range, and a window holds the registers base+0 .. base+23.
UpperRangeOffset == 24
RegistersPerWindow == 24
RegisterOffset(use_upper_range_registers_) ==
  IF use_upper_range_registers_ THEN UpperRangeOffset ELSE 0
Registers == 0..(RegistersPerWindow - 1)

\* std::to_string(int) of a value that is not negative: its decimal digits, no leading zero.
Digits == <<"0", "1", "2", "3", "4", "5", "6", "7", "8", "9">>
RECURSIVE to_string(_)
to_string(n) == IF n < 10 THEN Digits[n + 1] ELSE to_string(n \div 10) \o Digits[(n % 10) + 1]

outDoubleReg(register_offset_, reg) == "output_double_register_" \o to_string(register_offset_ + reg)
outIntReg(register_offset_, reg) == "output_int_register_" \o to_string(register_offset_ + reg)
inDoubleReg(register_offset_, reg) == "input_double_register_" \o to_string(register_offset_ + reg)
inIntRegOfIndex(register_offset_, reg) == "input_int_register_" \o to_string(reg)
inIntReg(register_offset_, reg) == "input_int_register_" \o to_string(register_offset_ + reg)

\* The names the four helpers build for the registers of a window.
RegisterNames(register_offset_) ==
  UNION { {outDoubleReg(register_offset_, reg), outIntReg(register_offset_, reg),
           inDoubleReg(register_offset_, reg), inIntReg(register_offset_, reg)} :
          reg \in Registers }

\* A control interface built without use_upper_range_registers builds a register name.
LowerRangeBuildsName ==
  /\ lower_range_name' \in RegisterNames(RegisterOffset(FALSE))
  /\ UNCHANGED <<upper_range_name, script_file_name_, recvVars, ioVars, digVars, scVars,
                 asyncVars, ccVars, wireVars>>

\* A control interface built with use_upper_range_registers builds a register name.
UpperRangeBuildsName ==
  /\ upper_range_name' \in RegisterNames(RegisterOffset(TRUE))
  /\ UNCHANGED <<lower_range_name, script_file_name_, recvVars, ioVars, digVars, scVars,
                 asyncVars, ccVars, wireVars>>

\* The script client has no socket before connect(); the I/O interface has read no frame.
InitWire ==
  /\ socket_ = "null"
  /\ ioReads = 0

\* No custom script file is assigned and no register name built yet.
InitNames ==
  /\ script_file_name_ = ""
  /\ lower_range_name = ""
  /\ upper_range_name = ""

NextRegisters == LowerRangeBuildsName \/ UpperRangeBuildsName

\* For the receive interface's claims the I/O interface does not move, and the other way round.
InitRest == InitDig /\ InitScriptFor(<<"\n">>, <<3, 9>>) /\ InitAsync /\ InitCmd /\ InitNames /\ InitWire
InitForRecv ==
  InitRecv /\ InitIO /\ InitRest /\ ioMajor = CB3_MAJOR_VERSION /\ actual_digital_output_bits = 0
InitForIO ==
  InitRecv /\ InitIO /\ InitRest /\ major = CB3_MAJOR_VERSION /\ actual_digital_output_bits = 0
InitForDigital ==
  InitRecv /\ InitIO /\ InitRest /\ major = CB3_MAJOR_VERSION /\ ioMajor = CB3_MAJOR_VERSION
InitForAsync == InitForDigital /\ actual_digital_output_bits = 0

SpecRecv == InitForRecv /\ [][NextRecv]_vars

\* The receive interface without getter calls, which change nothing its life cycle reads.
SpecLife == InitForRecv /\ [][NextLife]_vars
SpecIO == InitForIO /\ [][NextIO]_vars

SpecIOSetters == InitForIO /\ [][NextIOSetters]_vars

\* The five setters and isProgramRunning() on one I/O interface whose caller leaves
\* reconnect() to sendCommand.
NextIOCalls ==
  \/ SetStandardDigitalOutCall \/ SetToolDigitalOutCall \/ SetSpeedSliderCall
  \/ SetAnalogOutputVoltageCall \/ SetAnalogOutputCurrentCall
  \/ sendCommandSend \/ sendCommandCatch \/ sendCommandTest \/ sendCommandFallsOff
  \/ IOReconnectConnect \/ IOReconnectNegotiate \/ IOReconnectOutputSetup
  \/ IOReconnectInputSetup \/ IOReconnectStart \/ IOReconnectReturn
  \/ IOKillSocket
  \/ IsProgramRunningCall
InitForIOCalls == InitForIO /\ ioMajor = CB3_MAJOR_VERSION
SpecIOCalls == InitForIOCalls /\ [][NextIOCalls]_vars

\* verifyValueIsWithin applied to every triple of doubles.
SpecVerify == InitForIOCalls /\ [][NextVerify]_vars

\* The I/O interface asked whether a program runs, over a link that may die.
SpecIOStatus == InitForIO /\ [][NextIOStatus]_vars

\* Construction and reconnect() of both interfaces, with controllers of either series.
NextSetup ==
  \/ CtorConnect \/ CtorNegotiate \/ CtorSetup \/ CtorStart \/ CtorState \/ CtorSpawn
  \/ ReconnectCall \/ ReconnectConnect \/ ReconnectNegotiate \/ ReconnectSetup
  \/ ReconnectStart \/ ReconnectResetStop \/ ReconnectSpawn \/ ReconnectReturn
  \/ IOReconnectCall \/ IOReconnectConnect \/ IOReconnectNegotiate \/ IOReconnectOutputSetup
  \/ IOReconnectInputSetup \/ IOReconnectStart \/ IOReconnectReturn
InitForSetup == InitRecv /\ InitIO /\ InitRest /\ actual_digital_output_bits = 0
SpecSetup == InitForSetup /\ [][NextSetup]_vars

\* One script client, its script and its controller's version being any.
InitForScript ==
  /\ InitRecv /\ InitIO /\ InitDig /\ InitScript /\ InitAsync /\ InitCmd /\ InitNames /\ InitWire
  /\ major = CB3_MAJOR_VERSION /\ ioMajor = CB3_MAJOR_VERSION /\ actual_digital_output_bits = 0
SpecScript == InitForScript /\ [][NextScript]_vars

\* The caller's thread is scheduled while it is inside sendScript().
SpecScriptFair == SpecScript /\ WF_vars(sendScriptMarker) /\ WF_vars(sendScriptSend)

\* One script client whose caller assigns custom script files; its built-in script has no
\* marker, or one.
NextScriptFile == NextScript \/ setScriptFile
InitForScriptFile ==
  /\ InitForScript
  /\ script_text \in {<<"4", "\n">>, <<"$", "a", "4", "4", "\n">>}
SpecScriptFile == InitForScriptFile /\ [][NextScriptFile]_vars

\* The example's client, the receive loop and the control script during async paths.
SpecAsync == InitForAsync /\ [][NextAsync]_vars

\* The client's thread and the receive thread are scheduled, and the script goes on moving.
SpecAsyncFair ==
  SpecAsync /\ WF_vars(ClientStep) /\ WF_vars(ReceiveProgress) /\ WF_vars(ScriptStep)

\* The command channel's caller, the receive loop and the control script.
InitForCommand == InitForAsync
SpecCommand == InitForCommand /\ [][NextCommand]_vars

\* Writes to the standard digital outputs over a link that stays up, and the controller.
SpecDigital == InitForDigital /\ [][NextDigital]_vars

\* The steps of a receive thread that the scheduler alone lets it take: a frame's arrival
\* (receiveDataBegin) is the controller's doing.
ThreadRuns(t) ==
  \/ LoopTest(t)
  \/ receiveDataEnd(t)
  \/ receiveDataThrows(t)
  \/ CatchDisconnect(t)
  \/ CatchStop(t)

\* The scheduler runs every receive thread and the caller inside disconnect(); the controller
\* may stop sending frames at any time while the connection stays open.
SpecLifeQuiet ==
  /\ SpecLife
  /\ \A t \in Threads : WF_vars(ThreadRuns(t))
  /\ WF_vars(DisconnectJoin \/ DisconnectClose)

\* Two control interfaces, one on each register window, building register names.
SpecRegisters == InitForAsync /\ [][NextRegisters]_vars

\* The scheduler runs every receive thread that can take a step, and the controller streams
\* frames while the session is started.
SpecLifeFair == SpecLife /\ \A t \in Threads : WF_vars(ThreadStep(t))

(***************************************************************************)
(* Claims about the receive interface                                      *)
(***************************************************************************)

\* Thread t takes a step of receiveCallback.
ThreadMoved(t) == thr[t] # "none" /\ thr'[t] # thr[t]

\* C1: at any time at most one receive-loop thread is executing on the session, whatever
\* constructor, reconnect() and disconnect() calls were made.
C1_AtMostOneReceiveLoop == Cardinality({t \in Threads : Alive(t)}) <= 1

\* The last reconnect() was called after the receive loop had exited on a transport error,
\* has returned, and since its connect the socket was neither killed nor closed.
C2_Reconnected ==
  /\ callerPc \in {"idle", "get_read"}
  /\ lastOp = "reconnect" /\ ret # "threw"
  /\ rcClean
  /\ link = "up"

\* C2: a reconnect() called after the receive loop exited on a transport error returns
\* isConnected() = true and leaves a receive loop running with the stop flag false (until
\* the caller disconnects or the socket dies again), and a new frame then reaches the snapshot.
C2_ReconnectRestoresReceiveLoop ==
  /\ [](C2_Reconnected =>
          /\ ret = "true" /\ isConnected(conn)
          /\ stop_thread = FALSE
          /\ Alive(th_))
  /\ (C2_Reconnected ~> (fresh \/ ~C2_Reconnected))

\* C2 witness: such a reconnect() has returned and a frame has been decoded since.
C2_Witness == C2_Reconnected /\ fresh /\ failed[1] /\ thr[1] = "done" /\ snap[1] = snap[2]

\* C3: when receiveData raises in the receive loop, the handler leaves the session not
\* connected, and the thread never calls receiveData again.
C3_ErrorEndsReceiveLoop ==
  [][\A t \in Threads :
       /\ (thr[t] = "catch" /\ thr'[t] # "catch") => ~isConnected(conn')
       /\ failed[t] => thr'[t] # "recv"]_vars

\* C4: disconnect() sets the stop flag and joins the receive worker before it closes the
\* socket: once it has returned, the flag is set and no thread is in receiveData.
C4_DisconnectStopsWorkerFirst ==
  (callerPc = "idle" /\ lastOp = "disconnect") =>
    /\ stop_thread
    /\ calls \in {<<"stop", "join", "close">>, <<"stop", "join">>}
    /\ \A t \in Threads : thr[t] \notin {"recv", "decode"}

\* C5: reconnect() runs connect only when the old worker has stopped and the old socket is
\* closed, and then does connect, negotiation, recipe setup, start, the reset of the stop
\* flag and the restart of the receive loop, in this order.
C5_ReconnectClosesFirst ==
  /\ [][(callerPc = "rc_connect" /\ callerPc' # "rc_connect") =>
          /\ \A t \in Threads : ~Alive(t)
          /\ ~isConnected(conn)]_vars
  /\ [](callerPc = "rc_return" =>
          calls = <<"connect", "negotiate", "setup", "start", "reset", "spawn">>)

\* C8 (as claimed): no step of a receive-loop thread changes the connection state.
C8_ReceiveLoopOnlyReads ==
  [][(\E t \in Threads : ThreadMoved(t)) => conn' = conn]_vars

\* C8 (amended): a receive-loop thread changes the connection state only in the handler of a
\* receiveData error, and only to DISCONNECTED; it never connects the session.
C8_ReceiveLoopOnlyDisconnectsOnError ==
  [][\A t \in Threads :
       (ThreadMoved(t) /\ conn' # conn) => (thr[t] = "catch" /\ conn' = "DISCONNECTED")]_vars

\* C8 witness: a receive-loop thread has disconnected the session in its handler.
C8_Witness == closedBy = "loop" /\ conn = "DISCONNECTED" /\ \E t \in Threads : thr[t] = "setstop"

\* C9: the value a getter returns has all its fields from one frame, also when the getter
\* was called while a frame was being decoded.
C9_GetterSeesOneFrame == got[1] = got[2]

\* C9 witness: a getter called during a decode has returned a frame.
C9_Witness == callerPc = "idle" /\ contended /\ got[1] > 0 /\ got[1] = got[2]

(***************************************************************************)
(* Claims about the I/O interface                                          *)
(***************************************************************************)

\* C6: a transport error during the send of an I/O command is seen by the caller as a
\* failure of that call, and a disconnected session is connected again only by a
\* reconnect() that the caller called.
C6_ErrorSurfacesAndNoOwnReconnect ==
  /\ []((ioOp = "none" /\ ioFailures > 0) => ioResult \in {"false", "threw"})
  /\ [][(~isConnected(ioConn) /\ isConnected(ioConn')) => ioOp = "reconnect"]_vars

\* C7: one setter call makes at most two send attempts.
C7_AtMostOneRetry == ioAttempts <= 2

\* x << n
RECURSIVE ShiftLeft(_, _)
ShiftLeft(x, n) == IF n = 0 THEN x ELSE ShiftLeft(2 * x, n - 1)

\* C10: a frame sent by setStandardDigitalOut(id, level), id in 0..7, is on the recipe
\* (id 2) that carries the standard digital output fields, with mask 1 << id and value
\* 1 << id for level true, 0 for level false.
C10_StandardDigitalOutFrame ==
  (ioArgs.fn = "setStandardDigitalOut" /\ ioSent > 0 /\ ioArgs.output_id \in 0..7) =>
    /\ ioFrame.recipe_id = 2
    /\ {"standard_digital_output_mask", "standard_digital_output"} \subseteq DOMAIN ioFrame.fields
    /\ ioFrame.fields["standard_digital_output_mask"] = ShiftLeft(1, ioArgs.output_id)
    /\ ioFrame.fields["standard_digital_output"] =
         IF ioArgs.signal_level THEN ShiftLeft(1, ioArgs.output_id) ELSE 0

\* C10 witness: setStandardDigitalOut(3, true) has sent a frame with mask 0x08, value 0x08.
C10_Witness ==
  /\ ioArgs.fn = "setStandardDigitalOut" /\ ioSent > 0 /\ ioOp = "none"
  /\ ioArgs.output_id = 3 /\ ioArgs.signal_level
  /\ ioFrame.fields["standard_digital_output_mask"] = 8
  /\ ioFrame.fields["standard_digital_output"] = 8

(***************************************************************************)
(* Claims about the controller's outputs and the recipes                   *)
(***************************************************************************)

IntRegister(f) ==
  CASE f = "input_int_register_20" -> 20
    [] f = "input_int_register_2" -> 2
    [] OTHER -> -1

\* The int registers of the command channel, base 0 and base 24.
CommandWindow == (0..7) \cup (24..31)

\* C12: every input recipe the I/O interface has declared, by its constructor or by
\* reconnect(), has input_int_register_20 as its first field, the command slot, and holds no
\* int register of the command channel's window.
C12_RecipesUseRegister20 ==
  \A i \in 1..Len(ioRecipes) :
    /\ ioRecipes[i][1] = "input_int_register_20"
    /\ \A f \in Range(ioRecipes[i]) : IntRegister(f) \notin CommandWindow

\* C13 as stated: no field name appears in two of the input recipes declared.
C13_RecipesDisjoint ==
  \A i, j \in 1..Len(ioRecipes) :
    i # j => Range(ioRecipes[i]) \cap Range(ioRecipes[j]) = {}

\* C13 as the code has it: the input recipes declared share the command slot
\* input_int_register_20 and nothing else; every other field name appears in one recipe only.
C13_RecipesShareOnlyCommandSlot ==
  \A i, j \in 1..Len(ioRecipes) :
    i # j => Range(ioRecipes[i]) \cap Range(ioRecipes[j]) \subseteq {"input_int_register_20"}

\* C13 witness: reconnect() has returned and its five recipes are the ones declared.
C13_Witness ==
  /\ ioOp = "none" /\ ioConn = "STARTED"
  /\ Len(ioRecipes) = 5
  /\ ioRecipes # CtorInputRecipes

\* C14: the frequency computed for a controller is 125 Hz up to major version 3 and 500 Hz
\* above, and it is the frequency of every output setup sent: by the receive interface's
\* constructor and reconnect(), and by the I/O interface's constructor and reconnect().
C14_FrequencyByControllerSeries ==
  /\ \A m \in 0..9 : FrequencyFor(m) = IF m <= 3 THEN 125 ELSE 500
  /\ frequency # 0 => frequency = IF major <= 3 THEN 125 ELSE 500
  /\ ioFrequency = IF ioMajor <= 3 THEN 125 ELSE 500

\* C14 witness: both interfaces have reconnected, one to an e-Series controller and one to a
\* CB3 controller.
C14_Witness ==
  /\ callerPc = "idle" /\ lastOp = "reconnect" /\ ret = "true"
  /\ major = 5 /\ frequency = 500
  /\ ioOp = "none" /\ ioRecipes = ReconnectInputRecipes
  /\ ioMajor = 3 /\ ioFrequency = 125

(***************************************************************************)
(* Claims about the script client                                          *)
(***************************************************************************)

\* The character at position i of a line, counted from 0; a blank past its end.
CharAt(line, i) == IF i < Len(line) THEN line[i + 1] ELSE " "

RECURSIVE ExpectedLine(_)
\* A line after the pre-processing pass as the claim describes it: unchanged without a marker;
\* with a marker whose version the controller reaches, kept (its marker blanked, the rest of
\* the line treated the same way); deleted as a whole otherwise.
ExpectedLine(line) ==
  LET k == Find(line, "$", 0)
  IN  IF k = npos THEN line
      ELSE IF VersionFits(Stoi(CharAt(line, k + 2)), Stoi(CharAt(line, k + 3)))
        THEN ExpectedLine(Insert(Erase(line, k, 4), k, <<" ", " ", " ", " ">>))
        ELSE <<>>

RECURSIVE ExpectedScript(_)
\* The lines of a text after the pass, in their order.
ExpectedScript(text) ==
  IF text = <<>> THEN <<>>
  ELSE LET nl == Find(text, "\n", 0)
           len == IF nl = npos THEN Len(text) ELSE nl + 1
       IN  ExpectedLine(SubSeq(text, 1, len)) \o ExpectedScript(SubSeq(text, len + 1, Len(text)))

\* C15: when the pre-processing pass of sendScript() is through (every marker it met could be
\* parsed), the text it is about to send is the script with every line whose marker the
\* controller's version does not reach deleted as a whole, its other lines in their order.
C15_PassKeepsOrDeletesWholeLines ==
  scPc = "send" => ur_script = ExpectedScript(script_text)

\* The marker sendScript() is about to read cannot be parsed: the text ends where its major
\* or minor digit is expected, or one of the two is a blank or another non-digit.
MarkerUnparsable ==
  /\ scPc = "marker"
  /\ \/ find_n + 3 >= Len(ur_script)
     \/ Stoi(ur_script[find_n + 3]) < 0
     \/ Stoi(ur_script[find_n + 4]) < 0

\* C16: when sendScript() meets a marker it cannot parse, it returns false and nothing is
\* written to the socket.
C16_UnparsableMarkerReturnsFalse ==
  [][MarkerUnparsable => (scPc' = "idle" /\ scRet' = "false" /\ written' = <<>>)]_vars

\* C17: once sendScript() or sendScriptCommand() has written its text and returned, the
\* script client is DISCONNECTED.
C17_UploadEndsClosed ==
  (scPc = "idle" /\ scLast \in {"sendScript", "sendScriptCommand"} /\ scRet = "true")
    => conn_state_ = "DISCONNECTED"

\* C18: a script client is not connected after its construction, connected after connect()
\* has returned, not connected after disconnect() has returned, and no other call changes
\* this, whatever calls came before.
C18_ConnectionStateFollowsCalls ==
  /\ [](scLast = "ctor" => ~scIsConnected)
  /\ []((scLast = "connect" /\ scRet = "returned") => scIsConnected)
  /\ [](scLast = "disconnect" => ~scIsConnected)
  /\ [][scIsConnected' # scIsConnected => scLast' \in {"connect", "disconnect"}]_vars

\* C18 witness: connect() has returned, and a later sendScript() has uploaded the script, a
\* line of it deleted, with the client still connected.
C18_Witness ==
  /\ scPc = "idle" /\ scLast = "sendScript" /\ scRet = "true"
  /\ scIsConnected
  /\ Len(written) < Len(script_text)

(***************************************************************************)
(* Claims about the command channel                                        *)
(***************************************************************************)

\* The progress values of one async path, in order: -1, 0 .. PathWaypoints - 1, -1.
ProgressValues == <<-1>> \o [i \in 1..PathWaypoints |-> i - 1] \o <<-1>>

C20_OneCommandFrameThenClear ==
  /\ [](Cardinality({i \in 1..Len(ccFrames) : ccFrames[i] = ccCode}) <= 1)
  /\ [][(ccFrames' # ccFrames /\ ccFrames'[Len(ccFrames')] = NOOP) => ccDoneSeen]_vars
  /\ []((ccPc = "idle" /\ ccRet = "true") => (ccDoneSeen /\ ccFrames = <<ccCode, NOOP>>))

\* C20 witness: a MOVEL command was sent, DONE observed, the clear frame sent, and the script
\* reports ready again.
C20_Witness ==
  /\ ccPc = "idle" /\ ccRet = "true"
  /\ ccFrames = <<2, 0>>
  /\ done_register = UR_CONTROLLER_RDY_FOR_CMD

\* C21: a register name built by inIntReg, outIntReg, inDoubleReg or outDoubleReg for a
\* register 0..23 of the window with base 0 never equals a name built for a register 0..23 of
\* the window with base 24.
C21_WindowsShareNoName ==
  \/ lower_range_name = "" \/ upper_range_name = ""
  \/ lower_range_name # upper_range_name

\* The last register of the lower window and the first of the upper one have been named.
C21_Witness ==
  /\ lower_range_name = "input_int_register_23"
  /\ upper_range_name = "input_int_register_24"

\* C22: every blocking wait ends in bounded time: a caller that has set the stop flag in
\* disconnect() of the receive interface and waits for the receive thread returns from
\* disconnect(), also when the controller sends no further frame.
C22_DisconnectReturns == (callerPc = "dc_join") ~> (callerPc = "idle")

\* C23: reconnect() of the I/O interface declares the output recipe and the five input
\* recipes that the constructor declares: the same field names, in the same order, under the
\* same recipe ids.
C23_ReconnectDeclaresCtorRecipes ==
  /\ ReconnectOutputRecipe = CtorOutputRecipe
  /\ \A id \in 1..Len(ioRecipes) : ioRecipes[id] = CtorInputRecipes[id]

\* The custom script cannot be used: none is assigned, or the assigned file does not load.
C24_NoCustomScript == script_file_name_ = "" \/ ~loadScript(script_file_name_, <<>>).ok

\* C24: when the assigned custom script file cannot be loaded, or the assigned name is empty,
\* sendScript() goes on with the built-in script, and what it uploads of a built-in script
\* without markers is that script.
C24_FallsBackToBuiltIn ==
  /\ [][(sendScriptLoad /\ C24_NoCustomScript) => ur_script' = script_text]_vars
  /\ [][(sendScriptSend /\ C24_NoCustomScript /\ scRet' = "true"
           /\ Find(script_text, "$", 0) = npos) => written' = script_text]_vars

\* C24 witness: a file that cannot be opened is assigned and sendScript() has uploaded the
\* built-in script.
C24_Witness ==
  /\ script_file_name_ = "missing.script"
  /\ scLast = "sendScript" /\ scRet = "true"
  /\ written = script_text

\* The setters that take a double.
C25_DoubleSetters == {"setSpeedSlider", "setAnalogOutputVoltage", "setAnalogOutputCurrent"}

\* C25: setSpeedSlider, setAnalogOutputVoltage and setAnalogOutputCurrent called with NaN
\* end with the validation error of verifyValueIsWithin and emit no frame.
C25_NaNIsRejected ==
  (/\ ioArgs.fn \in C25_DoubleSetters
   /\ verifyValueIsWithin(ioArgs.value, Double(0), Double(1)) = "invalid_argument") =>
    /\ ioSent = 0
    /\ ioOp = "none" => ioResult = "threw"

\* C26: when the receive loop has stopped on an I/O error, the caller can read the error from
\* the interface after the loop has exited. The catch block leaves the caller two traces, the
\* stop flag and a closed session, so what the caller reads of them, once the loop of the
\* thread it owns has exited, must tell a stop on an error from any other stop.
C26_ErrorIsReadable ==
  (callerPc = "idle" /\ th_ > 0 /\ thr[th_] = "done") =>
    (failed[th_] <=> (stop_thread /\ ~isConnected(conn)))

\* C27: for every script text the marker loop of sendScript() ends, and a text that
\* sendScript() has written holds no "$".
C27_MarkerLoopEnds ==
  /\ (scPc = "marker") ~> (scPc # "marker")
  /\ []((scLast = "sendScript" /\ scRet = "true") => Find(written, "$", 0) = npos)

\* C28: sendCommand of the I/O interface returns true whenever the command's frame was sent,
\* by the first attempt or by the retry after reconnect(), and the setter returns that
\* result: a setter call that has sent its frame returns true.
C28_SentFrameReturnsTrue ==
  [][(ioOp = "setter" /\ ioOp' = "none" /\ ioSent' > 0) => ioResult' = "true"]_vars

\* The bits set in a byte.
C29_Bits(x) == {j \in 0..7 : BitAt(x, j) = 1}

\* C29: for every output id, a frame sent by setStandardDigitalOut or setToolDigitalOut has a
\* mask with exactly one bit set, and the bits of its value are bits of its mask.
C29_MaskHasOneBit ==
  (ioArgs.fn \in {"setStandardDigitalOut", "setToolDigitalOut"} /\ ioSent > 0) =>
    LET mask_ == IF ioArgs.fn = "setStandardDigitalOut"
                   THEN ioFrame.fields["standard_digital_output_mask"]
                   ELSE ioFrame.fields["tool_digital_output_mask"]
        value == IF ioArgs.fn = "setStandardDigitalOut"
                   THEN ioFrame.fields["standard_digital_output"]
                   ELSE ioFrame.fields["tool_digital_output"]
    IN  /\ Cardinality(C29_Bits(mask_)) = 1
        /\ C29_Bits(value) \subseteq C29_Bits(mask_)

\* The recipe id each setter's fields are declared under, and those fields.
C30_RecipeOf(fn) ==
  CASE fn = "setStandardDigitalOut" -> 2
    [] fn = "setToolDigitalOut" -> 3
    [] fn = "setSpeedSlider" -> 4
    [] fn \in {"setAnalogOutputVoltage", "setAnalogOutputCurrent"} -> 5
C30_FieldsOf(fn) ==
  CASE fn = "setStandardDigitalOut" -> {"standard_digital_output_mask", "standard_digital_output"}
    [] fn = "setToolDigitalOut" -> {"tool_digital_output_mask", "tool_digital_output"}
    [] fn = "setSpeedSlider" -> {"speed_slider_mask", "speed_slider_fraction"}
    [] fn \in {"setAnalogOutputVoltage", "setAnalogOutputCurrent"} ->
         {"standard_analog_output_mask", "standard_analog_output_type",
          "standard_analog_output_0", "standard_analog_output_1"}

\* C30: a frame sent by a setter of the I/O interface is on the recipe that declares the
\* setter's fields (standard digital outputs 2, tool digital outputs 3, speed slider 4, analog
\* outputs 5) and carries those fields, with the constructor's recipes and with reconnect()'s.
C30_SetterUsesItsRecipe ==
  (ioArgs.fn # "none" /\ ioSent > 0) =>
    /\ ioFrame.recipe_id = C30_RecipeOf(ioArgs.fn)
    /\ C30_FieldsOf(ioArgs.fn) \subseteq DOMAIN ioFrame.fields
    /\ \A id \in 1..Len(ioRecipes) :
         (C30_FieldsOf(ioArgs.fn) \cap Range(ioRecipes[id]) # {}) => id = ioFrame.recipe_id

\* C30 witness: after a reconnect() inside sendCommand, setAnalogOutputVoltage has sent its
\* frame on recipe 5 of the recipes reconnect() declared.
C30_Witness ==
  /\ ioArgs.fn = "setAnalogOutputVoltage" /\ ioSent > 0 /\ ioFailures > 0
  /\ ioRecipes = ReconnectInputRecipes
  /\ ioFrame.recipe_id = 5
  /\ "standard_analog_output_0" \in DOMAIN ioFrame.fields

(***************************************************************************)
(* Claims about the analog outputs, the setters' frames and the loop's     *)
(* start                                                                   *)
(***************************************************************************)

\* C31: for output id 0 and 1, a frame sent by setAnalogOutputVoltage(id, r) or
\* setAnalogOutputCurrent(id, r) is on the analog-output recipe, its mask is 1 << id, its
\* value slot for output id is r, and bit id of its type field is 1 for voltage and 0 for
\* current, so that a controller applying the masked bits gives output id that domain and
\* leaves the other output's alone.
C31_AnalogFrameSelectsOutput ==
  (/\ ioArgs.fn \in {"setAnalogOutputVoltage", "setAnalogOutputCurrent"}
   /\ ioSent > 0 /\ ioArgs.output_id \in {0, 1}) =>
    /\ ioFrame.recipe_id = 5
    /\ ioFrame.fields["standard_analog_output_mask"] = ShiftLeft(1, ioArgs.output_id)
    /\ ioFrame.fields[IF ioArgs.output_id = 0 THEN "standard_analog_output_0"
                                              ELSE "standard_analog_output_1"] = ioArgs.value
    /\ BitAt(ioFrame.fields["standard_analog_output_type"], ioArgs.output_id) =
         (IF ioArgs.fn = "setAnalogOutputVoltage" THEN 1 ELSE 0)

\* C35: isProgramRunning() of the I/O interface receives one output frame and returns true
\* exactly when bit 1 (program running) of that frame's robot_status_bits is set.
C35_ProgramRunningIsBitOne ==
  /\ [][IsProgramRunningCall /\ ioResult' # "threw" =>
          /\ ioReads' = ioReads + 1
          /\ (ioResult' = "true") <=> (BitAt(ioArgs'.robot_status, 1) = 1)]_vars
  /\ [](ioReads <= MaxReads)

\* C35 witness: a frame with the power-on, teach-button and bit 4 set but not the
\* program-running bit was received, and false returned.
C35_Witness ==
  /\ ioArgs.fn = "isProgramRunning" /\ ioResult = "false"
  /\ ioArgs.robot_status = 21
  /\ ioReads = 1

\* The setters of the I/O interface.
C32_Setters ==
  {"setStandardDigitalOut", "setToolDigitalOut", "setSpeedSlider", "setAnalogOutputVoltage",
   "setAnalogOutputCurrent"}

\* C32: a setter call of the I/O interface never emits more than one input frame, has emitted
\* exactly one when it returns true, and none of its steps receives an output frame.
C32_OneFrameNoRead ==
  /\ [](ioSent <= 1)
  /\ []((ioArgs.fn \in C32_Setters /\ ioOp = "none" /\ ioResult = "true") => ioSent = 1)
  /\ [][(ioOp = "setter" \/ ioOp' = "setter") => ioReads' = ioReads]_vars

\* C32 witness: after isProgramRunning() has received a frame, setSpeedSlider has returned
\* true with one frame emitted by its first send.
C32_Witness ==
  /\ ioArgs.fn = "setSpeedSlider" /\ ioOp = "none" /\ ioResult = "true"
  /\ ioSent = 1 /\ ioAttempts = 1
  /\ ioReads = 1

\* C33: a receive loop is started only on a session that is STARTED (its output recipe set
\* up, streaming started) and with the snapshot object made, by the constructor and by
\* reconnect(), and no loop calls receiveData on a session that is not STARTED or without a
\* snapshot.
C33_LoopRunsOnStartedSession ==
  [][\A t \in Threads :
       /\ (thr[t] = "none" /\ thr'[t] # "none") => (conn = "STARTED" /\ robot_state_)
       /\ (thr[t] = "check" /\ thr'[t] = "recv") => (conn = "STARTED" /\ robot_state_)]_vars

\* C34: verifyValueIsWithin(value, min, max) raises exactly when one of the three is NaN or
\* value lies outside the closed interval [min;max] (both bounds are accepted): an invalid
\* argument for a NaN, a range error for a value out of range.
C34_RaisesExactlyOutsideClosedInterval ==
  [][VerifyValueIsWithinCall =>
       LET a == ioArgs'
           AnyNaN == isnan(a.value) \/ isnan(a.min) \/ isnan(a.max)
           Outside == a.value.v < a.min.v \/ a.value.v > a.max.v
       IN /\ (ioResult' # "returned") <=> (AnyNaN \/ Outside)
          /\ AnyNaN => ioResult' = "invalid_argument"
          /\ (~AnyNaN /\ Outside) => ioResult' = "range_error"]_vars

\* C34 witness: a value equal to the lower bound was accepted.
C34_Witness ==
  /\ ioArgs.fn = "verifyValueIsWithin" /\ ioResult = "returned"
  /\ ioArgs.value = Double(2) /\ ioArgs.min = Double(2) /\ ioArgs.max = Double(3)

\* C37: after a connect() that failed isConnected() is false, also when the client was
\* connected before the call, so that isConnected() implies that the socket at hand is
\* connected.
C37_ConnectedMeansSocketConnected ==
  /\ (scLast = "connect" /\ scRet = "threw") => ~scIsConnected
  /\ scIsConnected => socket_ = "connected"

\* The three sends of the script client.
C36_Sends == {"sendScriptCommand", "sendScript", "sendScriptFile"}

\* C36: sendScriptCommand(), sendScript() and sendScript(file_name) return false and write
\* nothing when the client is not connected or the text is empty, and leave the connection
\* state as it was; a send after disconnect() does not touch the released socket.
C36_SendWithoutConnectionReturnsFalse ==
  /\ [][(scLast' \in C36_Sends /\ scPc' = "idle" /\ (~scIsConnected \/ socket_ = "null"))
          => (scRet' = "false" /\ written' = <<>>)]_vars
  /\ [][(scPc = "send" /\ scPc' = "idle" /\ ur_script = <<>>)
          => (scRet' = "false" /\ written' = <<>>)]_vars
  /\ [][(scPc # "idle" \/ scPc' # "idle" \/ scLast' \in C36_Sends)
          => UNCHANGED <<conn_state_, socket_>>]_vars

\* C38: disconnect() of the receive interface is idempotent: called on a session that is
\* already DISCONNECTED (by an earlier disconnect(), or by the loop on its error) it leaves
\* the session DISCONNECTED and does not close the RTDE connection again; after any
\* disconnect() the session is DISCONNECTED.
C38_DisconnectIsIdempotent ==
  /\ [][(DisconnectClose /\ conn = "DISCONNECTED") =>
          (conn' = "DISCONNECTED" /\ calls' = calls /\ closedBy' = closedBy)]_vars
  /\ []((lastOp = "disconnect" /\ callerPc = "idle") => conn = "DISCONNECTED")

\* C38 witness: a disconnect() has returned without closing, on a session an earlier
\* disconnect() had closed.
C38_Witness ==
  /\ lastOp = "disconnect" /\ callerPc = "idle"
  /\ calls = <<"stop", "join">>
  /\ closedBy = "caller"
  /\ conn = "DISCONNECTED"
====
